---- MODULE Spec2Model ----
(***************************************************************************)
(* Model of inverter2mqtt: the frame codec and command executor of         *)
(* src/inverter.rs, driven by a transport (InverterDevice) that delivers   *)
(* 8-byte chunks.  Byte strings are sequences of numbers 0..255.           *)
(***************************************************************************)
EXTENDS Integers, Sequences, FiniteSets, TLC

(***************************************************************************)
(* Program constants.                                                      *)
(***************************************************************************)
MAX_COMMAND_LENGTH == 5

START_RESPONSE_MARKER == 40

END_RESPONSE_MARKER == 13

\* let mut buf = [0; 8]: the size of one transport read
CHUNK_SIZE == 8

\* res.resize(8, b'\0'): the minimum length of an encoded command
MIN_FRAME_LENGTH == 8

\* CRC_16_XMODEM: width 16, poly 0x1021, init 0, refin/refout false, xorout 0
CRC_POLY == 4129

CRC_INIT == 0

CRC_XOROUT == 0

(***************************************************************************)
(* Byte and sequence helpers.                                              *)
(***************************************************************************)
RECURSIVE Xor(_, _, _)
\* bitwise exclusive or of two naturals below 2^bits
Xor(a, b, bits) ==
    IF bits = 0 THEN 0
    ELSE ((a + b) % 2) + 2 * Xor(a \div 2, b \div 2, bits - 1)

RECURSIVE Zeros(_)
Zeros(n) == IF n <= 0 THEN << >> ELSE <<0>> \o Zeros(n - 1)

RECURSIVE Flatten(_)
\* the concatenation of a sequence of byte sequences
Flatten(ss) == IF ss = << >> THEN << >> ELSE Head(ss) \o Flatten(Tail(ss))

Last(s) == s[Len(s)]

\* s without its last n elements (n <= Len(s))
DropLast(s, n) == SubSeq(s, 1, Len(s) - n)

(***************************************************************************)
(* calc_crc: CRC-16/XMODEM, as the crc crate computes it: a 256-entry      *)
(* table of the register after one byte, then one table step per byte.     *)
(***************************************************************************)
RECURSIVE CrcShift(_, _)
\* n steps of the shift register: shift left, xor the polynomial in when the
\* bit shifted out is 1
CrcShift(reg, n) ==
    IF n = 0 THEN reg
    ELSE CrcShift(IF reg >= 32768
                  THEN Xor((reg * 2) % 65536, CRC_POLY, 16)
                  ELSE (reg * 2) % 65536,
                  n - 1)

CrcTable == [i \in 0..255 |-> CrcShift(i * 256, 8)]

\* digest.update for one byte: no input reflection
CrcUpdate(reg, byte) ==
    LET t == CrcTable[Xor(reg \div 256, byte, 8)]
    IN  Xor((reg % 256) * 256, t, 16)

RECURSIVE CrcDigest(_, _)
CrcDigest(reg, data) ==
    IF data = << >> THEN reg
    ELSE CrcDigest(CrcUpdate(reg, Head(data)), Tail(data))

\* a CRC whose final XOR is 0xffff instead of 0
calc_crc_xorout(data) == Xor(CrcDigest(CRC_INIT, data), 65535, 16)

\* Inverter::calc_crc
calc_crc(data) == Xor(CrcDigest(CRC_INIT, data), CRC_XOROUT, 16)

\* (crc >> 8) as u8, (crc & 0xff) as u8
CrcHi(crc) == crc \div 256

CrcLo(crc) == crc % 256

(***************************************************************************)
(* Inverter::encode_command                                                *)
(***************************************************************************)
\* the frame body with the two checksum bytes low byte first
EncodeBodySwapped(cmd) ==
    cmd \o <<CrcLo(calc_crc(cmd)), CrcHi(calc_crc(cmd))>> \o <<13>>

\* res after the three pushes: command, crc high byte, crc low byte, b'\r'
EncodeBody(cmd) ==
    cmd \o <<CrcHi(calc_crc(cmd)), CrcLo(calc_crc(cmd))>> \o <<13>>

\* the frame left as long as the command makes it
PadFrameNever(res) == res

\* if res.len() < 8 { res.resize(8, b'\0') }
PadFrame(res) ==
    IF Len(res) < MIN_FRAME_LENGTH
    THEN res \o Zeros(MIN_FRAME_LENGTH - Len(res))
    ELSE res

\* the length check left out
CommandTooLongNever(cmd) == FALSE

\* if res.len() > MAX_COMMAND_LENGTH
CommandTooLong(cmd) == Len(cmd) > MAX_COMMAND_LENGTH

encode_command(cmd) ==
    IF CommandTooLong(cmd)
    THEN [tag |-> "CommandTooLong", cmd |-> cmd]
    ELSE [tag |-> "Ok", value |-> PadFrame(EncodeBody(cmd))]

(***************************************************************************)
(* slice_trim_end_matches(&buf, |&b| b == b'\0')                           *)
(***************************************************************************)
RECURSIVE slice_trim_end_matches(_)
slice_trim_end_matches(arr) ==
    IF Len(arr) > 0 /\ Last(arr) = 0
    THEN slice_trim_end_matches(DropLast(arr, 1))
    ELSE arr

(***************************************************************************)
(* str::from_utf8 and String::from_utf8_lossy.  A Rust string is modelled  *)
(* by the bytes of its UTF-8 encoding.                                     *)
(***************************************************************************)
InRange(b, lo, hi) == lo <= b /\ b <= hi

ByteIn(s, i, lo, hi) == i <= Len(s) /\ InRange(s[i], lo, hi)

\* the range of the second byte after lead byte b
SecondLo(b) == IF b = 224 THEN 160 ELSE IF b = 240 THEN 144 ELSE 128

SecondHi(b) == IF b = 237 THEN 159 ELSE IF b = 244 THEN 143 ELSE 191

\* the character or the invalid sequence that starts at s[i]:
\* valid and its length, or invalid and the length of the maximal invalid part
Utf8Step(s, i) ==
    LET b == s[i] IN
    IF b < 128 THEN [valid |-> TRUE, len |-> 1]
    ELSE IF InRange(b, 194, 223) THEN
        IF ByteIn(s, i + 1, 128, 191) THEN [valid |-> TRUE, len |-> 2]
        ELSE [valid |-> FALSE, len |-> 1]
    ELSE IF InRange(b, 224, 239) THEN
        IF ~ByteIn(s, i + 1, SecondLo(b), SecondHi(b)) THEN [valid |-> FALSE, len |-> 1]
        ELSE IF ~ByteIn(s, i + 2, 128, 191) THEN [valid |-> FALSE, len |-> 2]
        ELSE [valid |-> TRUE, len |-> 3]
    ELSE IF InRange(b, 240, 244) THEN
        IF ~ByteIn(s, i + 1, SecondLo(b), SecondHi(b)) THEN [valid |-> FALSE, len |-> 1]
        ELSE IF ~ByteIn(s, i + 2, 128, 191) THEN [valid |-> FALSE, len |-> 2]
        ELSE IF ~ByteIn(s, i + 3, 128, 191) THEN [valid |-> FALSE, len |-> 3]
        ELSE [valid |-> TRUE, len |-> 4]
    ELSE [valid |-> FALSE, len |-> 1]

RECURSIVE Utf8ValidFrom(_, _)
Utf8ValidFrom(s, i) ==
    IF i > Len(s) THEN TRUE
    ELSE LET st == Utf8Step(s, i)
         IN  st.valid /\ Utf8ValidFrom(s, i + st.len)

\* str::from_utf8(bytes).is_ok()
Utf8Valid(s) == Utf8ValidFrom(s, 1)

RECURSIVE Utf8LossyFrom(_, _)
Utf8LossyFrom(s, i) ==
    IF i > Len(s) THEN << >>
    ELSE LET st == Utf8Step(s, i)
         IN  (IF st.valid THEN SubSeq(s, i, i + st.len - 1) ELSE <<239, 191, 189>>)
             \o Utf8LossyFrom(s, i + st.len)

\* String::from_utf8_lossy(bytes): every invalid part becomes U+FFFD
Utf8Lossy(s) == Utf8LossyFrom(s, 1)

(***************************************************************************)
(* format!("{:#06x}", v) for a u16: "0x" and four lower-case hex digits    *)
(***************************************************************************)
HexDigit(d) == IF d < 10 THEN 48 + d ELSE 87 + d

FormatHex(v) ==
    <<48, 120, HexDigit(v \div 4096), HexDigit((v \div 256) % 16),
      HexDigit((v \div 16) % 16), HexDigit(v % 16)>>

(***************************************************************************)
(* Inverter::read_response after the read loop: the checks on the          *)
(* reassembled frame resp.  An index or slice out of range panics.         *)
(***************************************************************************)
\* the frame's last two bytes as a big-endian u16
ActualCrc(resp) == resp[Len(resp) - 1] * 256 + resp[Len(resp)]

InvalidCrcError(resp) ==
    [tag |-> "InvalidCrc",
     expected |-> FormatHex(calc_crc(DropLast(resp, 2))),
     actual |-> FormatHex(ActualCrc(resp)),
     data |-> Utf8Lossy(DropLast(resp, 2))]

\* the checksum is not looked at
CrcMatchesAlways(resp) == TRUE

\* self.calc_crc(&resp) == 0
CrcMatches(resp) == calc_crc(resp) = 0

\* the checksum is checked before the marker
ValidateCrcFirst(resp) ==
    IF Len(resp) = 0 THEN [tag |-> "Panic"]
    ELSE IF ~CrcMatches(resp) THEN
        IF Len(resp) < 2 THEN [tag |-> "Panic"] ELSE InvalidCrcError(resp)
    ELSE IF resp[1] # START_RESPONSE_MARKER THEN [tag |-> "MissingResponseMarker"]
    ELSE IF Len(resp) < 3 THEN [tag |-> "Panic"]
    ELSE IF ~Utf8Valid(SubSeq(resp, 2, Len(resp) - 2)) THEN [tag |-> "ExpectedUtf8"]
    ELSE [tag |-> "Ok", value |-> SubSeq(resp, 2, Len(resp) - 2)]

Validate(resp) ==
    \* resp[0] on an empty vector
    IF Len(resp) = 0 THEN [tag |-> "Panic"]
    ELSE IF resp[1] # START_RESPONSE_MARKER THEN [tag |-> "MissingResponseMarker"]
    ELSE IF ~CrcMatches(resp) THEN
        \* resp.len()-2 on a one-byte vector
        IF Len(resp) < 2 THEN [tag |-> "Panic"] ELSE InvalidCrcError(resp)
    \* &resp[1..resp.len()-2] on a vector of fewer than three bytes
    ELSE IF Len(resp) < 3 THEN [tag |-> "Panic"]
    ELSE IF ~Utf8Valid(SubSeq(resp, 2, Len(resp) - 2)) THEN [tag |-> "ExpectedUtf8"]
    ELSE [tag |-> "Ok", value |-> SubSeq(resp, 2, Len(resp) - 2)]

(***************************************************************************)
(* str::split_ascii_whitespace: the maximal runs of bytes that are not     *)
(* ASCII whitespace (space, \t, \n, form feed, \r).                        *)
(***************************************************************************)
IsAsciiWhitespace(b) == b \in {32, 9, 10, 12, 13}

RECURSIVE SplitFrom(_, _, _)
\* cur is the token being collected while scanning s from index i
SplitFrom(s, i, cur) ==
    IF i > Len(s) THEN (IF cur = << >> THEN << >> ELSE <<cur>>)
    ELSE IF IsAsciiWhitespace(s[i])
         THEN (IF cur = << >> THEN << >> ELSE <<cur>>) \o SplitFrom(s, i + 1, << >>)
         ELSE SplitFrom(s, i + 1, Append(cur, s[i]))

split_ascii_whitespace(s) == SplitFrom(s, 1, << >>)

(***************************************************************************)
(* str::parse::<i64> and str::parse::<f64> on a token.                     *)
(***************************************************************************)
IsDigit(b) == InRange(b, 48, 57)

AllDigits(s) == \A i \in 1..Len(s) : IsDigit(s[i])

RECURSIVE DigitsValue(_)
DigitsValue(s) ==
    IF s = << >> THEN 0 ELSE 10 * DigitsValue(DropLast(s, 1)) + (Last(s) - 48)

\* a leading '+' or '-' is a sign only when something follows it
HasSign(s) == Len(s) > 1 /\ s[1] \in {43, 45}

Unsigned(s) == IF HasSign(s) THEN Tail(s) ELSE s

Sign(s) == IF HasSign(s) /\ s[1] = 45 THEN -1 ELSE 1

\* i64::from_str: an optional sign and then one or more decimal digits
ParseI64(s) ==
    IF s = << >> THEN [ok |-> FALSE, source |-> "Empty"]
    ELSE IF ~AllDigits(Unsigned(s)) \/ (Len(s) = 1 /\ s[1] \in {43, 45})
         THEN [ok |-> FALSE, source |-> "InvalidDigit"]
         ELSE [ok |-> TRUE, value |-> Sign(s) * DigitsValue(Unsigned(s))]

\* the index of the first '.' of s, or 0
RECURSIVE DotIndex(_, _)
DotIndex(s, i) ==
    IF i > Len(s) THEN 0 ELSE IF s[i] = 46 THEN i ELSE DotIndex(s, i + 1)

RECURSIVE Normalize(_, _)
\* m * 10^e with no trailing zero in m: distinct pairs are distinct numbers
Normalize(m, e) ==
    IF m = 0 THEN [m |-> 0, e |-> 0]
    ELSE IF m % 10 = 0 THEN Normalize(m \div 10, e + 1)
    ELSE [m |-> m, e |-> e]

\* f64::from_str on a token without exponent or inf/nan spelling: an optional
\* sign, digits, an optional '.', digits, with a digit on at least one side.
\* The value is kept as an exact decimal m * 10^e.
ParseF64(s) ==
    LET u == IF s # << >> /\ s[1] \in {43, 45} THEN Tail(s) ELSE s
        neg == s # << >> /\ s[1] = 45
        dot == DotIndex(u, 1)
        int == IF dot = 0 THEN u ELSE SubSeq(u, 1, dot - 1)
        frac == IF dot = 0 THEN << >> ELSE SubSeq(u, dot + 1, Len(u))
    IN  IF s = << >> THEN [ok |-> FALSE, source |-> "Empty"]
        ELSE IF ~AllDigits(int) \/ ~AllDigits(frac) \/ Len(int) + Len(frac) = 0
             THEN [ok |-> FALSE, source |-> "Invalid"]
             ELSE [ok |-> TRUE,
                   value |-> Normalize((IF neg THEN -1 ELSE 1) * DigitsValue(int \o frac),
                                       0 - Len(frac))]

(***************************************************************************)
(* config::SensorConfig, Option<SensorConfig> and SensorValue              *)
(***************************************************************************)
NoSensor == [some |-> FALSE]

Sensor(name, value_type) == [some |-> TRUE, name |-> name, value_type |-> value_type]

IntegerValue(v) == [kind |-> "Integer", v |-> v]

FloatValue(v) == [kind |-> "Float", v |-> v]

StringValue(v) == [kind |-> "String", v |-> v]

\* HashMap::insert: a later value for a key replaces the earlier one
Insert(map, k, v) == [x \in (DOMAIN map) \cup {k} |-> IF x = k THEN v ELSE map[x]]

\* a failed conversion reported under the other type's error kind
ConvertOtherKind(sensor, token) ==
    IF sensor.value_type = "Integer" THEN
        LET r == ParseI64(token) IN
        IF r.ok THEN [ok |-> TRUE, value |-> IntegerValue(r.value)]
        ELSE [ok |-> FALSE, kind |-> "ExpectedFloat", source |-> r.source]
    ELSE IF sensor.value_type = "Float" THEN
        LET r == ParseF64(token) IN
        IF r.ok THEN [ok |-> TRUE, value |-> FloatValue(r.value)]
        ELSE [ok |-> FALSE, kind |-> "ExpectedInteger", source |-> r.source]
    ELSE [ok |-> TRUE, value |-> StringValue(token)]

\* the match on sensor.value_type
Convert(sensor, token) ==
    IF sensor.value_type = "Integer" THEN
        LET r == ParseI64(token) IN
        IF r.ok THEN [ok |-> TRUE, value |-> IntegerValue(r.value)]
        ELSE [ok |-> FALSE, kind |-> "ExpectedInteger", source |-> r.source]
    ELSE IF sensor.value_type = "Float" THEN
        LET r == ParseF64(token) IN
        IF r.ok THEN [ok |-> TRUE, value |-> FloatValue(r.value)]
        ELSE [ok |-> FALSE, kind |-> "ExpectedFloat", source |-> r.source]
    ELSE [ok |-> TRUE, value |-> StringValue(token)]

\* descriptors left over when the tokens run out are an error, as a field
\* without a token is on the struct path
RECURSIVE ZipSensorsStrict(_, _, _)
ZipSensorsStrict(sensors, values, sensors_data) ==
    IF sensors = << >>
    THEN [tag |-> "Ok", value |-> sensors_data]
    ELSE IF values = << >>
    THEN [tag |-> "ParseResponse", kind |-> "ExpectedValue",
          sensor |-> IF Head(sensors).some THEN Head(sensors).name ELSE "", source |-> "Empty"]
    ELSE IF ~Head(sensors).some
         THEN ZipSensorsStrict(Tail(sensors), Tail(values), sensors_data)
         ELSE LET c == Convert(Head(sensors), Head(values)) IN
              IF ~c.ok
              THEN [tag |-> "ParseResponse", kind |-> c.kind,
                    sensor |-> Head(sensors).name, source |-> c.source]
              ELSE ZipSensorsStrict(Tail(sensors), Tail(values),
                                    Insert(sensors_data, Head(sensors).name, c.value))

\* an absent descriptor does not take a token: the next descriptor gets it
RECURSIVE ZipSensorsNoSkip(_, _, _)
ZipSensorsNoSkip(sensors, values, sensors_data) ==
    IF sensors = << >> \/ values = << >>
    THEN [tag |-> "Ok", value |-> sensors_data]
    ELSE IF ~Head(sensors).some
         THEN ZipSensorsNoSkip(Tail(sensors), values, sensors_data)
         ELSE LET c == Convert(Head(sensors), Head(values)) IN
              IF ~c.ok
              THEN [tag |-> "ParseResponse", kind |-> c.kind,
                    sensor |-> Head(sensors).name, source |-> c.source]
              ELSE ZipSensorsNoSkip(Tail(sensors), Tail(values),
                                    Insert(sensors_data, Head(sensors).name, c.value))

\* for (sensor, value) in cfg.sensors.iter().zip(resp.split_ascii_whitespace())
RECURSIVE ZipSensors(_, _, _)
ZipSensors(sensors, values, sensors_data) ==
    IF sensors = << >> \/ values = << >>
    THEN [tag |-> "Ok", value |-> sensors_data]
    ELSE IF ~Head(sensors).some
         THEN ZipSensors(Tail(sensors), Tail(values), sensors_data)
         ELSE LET c == Convert(Head(sensors), Head(values)) IN
              IF ~c.ok
              THEN [tag |-> "ParseResponse", kind |-> c.kind,
                    sensor |-> Head(sensors).name, source |-> c.source]
              ELSE ZipSensors(Tail(sensors), Tail(values),
                              Insert(sensors_data, Head(sensors).name, c.value))

\* Inverter::execute_command after read_response returned resp
ParseSensors(sensors, resp) ==
    ZipSensors(sensors, split_ascii_whitespace(resp), << >>)

(***************************************************************************)
(* Bounds of the model and the inputs drawn within them.                   *)
(***************************************************************************)
\* the longest command text
MaxCmdLen == 6

\* the longest descriptor list of a command
MaxSensors == 2

\* the most tokens of a generated response payload
MaxTokens == 2

\* the most chunks of a device stream put together from single chunks
MaxRawChunks == 2

\* the most commands of a configuration
MaxCommands == 2

\* the reads of a call are counted up to this number
MaxReads == 4

\* the most passes of the loop of run
MaxCycles == 2

\* the longest byte sequence handed to calc_crc on its own
MaxCrcLen == 3

\* all sequences over S of length lo..hi
SeqsOf(S, lo, hi) == UNION {[1..n -> S] : n \in lo..hi}

\* "QPIGS", the command of the repository's tests
QPIGS == <<81, 80, 73, 71, 83>>

\* command texts: everything over {'Q', 'P'} up to MaxCmdLen bytes, and QPIGS
CommandTexts == SeqsOf({81, 80}, 0, MaxCmdLen) \cup {QPIGS}

\* the descriptor list of test_inverter_execute_command
TestSensors == <<NoSensor, Sensor("sensor1", "Float")>>

Descriptors ==
    {NoSensor, Sensor("sensor1", "Float"), Sensor("sensor2", "Integer"),
     Sensor("sensor3", "String")}

SensorLists == SeqsOf(Descriptors, 0, MaxSensors)

\* the tokens "0", "233.7" and "a"
Tokens == {<<48>>, <<50, 51, 51, 46, 55>>, <<97>>}

RECURSIVE JoinTokens(_)
JoinTokens(ts) ==
    IF ts = << >> THEN << >>
    ELSE IF Len(ts) = 1 THEN ts[1]
    ELSE Head(ts) \o <<32>> \o JoinTokens(Tail(ts))

\* payloads of single-spaced tokens, and " 0\t\t233.7 " with other whitespace
TokenPayloads ==
    {JoinTokens(ts) : ts \in SeqsOf(Tokens, 0, MaxTokens)}
    \cup {<<32, 48, 9, 9, 50, 51, 51, 46, 55, 32>>}

\* payloads whose checksum bytes meet a chunk boundary:
\* "014 9" (crc low byte 0x00 is the 8th byte of the frame),
\* "012 4" (crc low byte 0x0d is the 8th byte),
\* "0001 3" (crc high byte 0x00 is the 8th byte),
\* "0003.7" (crc high byte 0x0d is the 8th byte)
EdgePayloads ==
    {<<48, 49, 52, 32, 57>>, <<48, 49, 50, 32, 52>>,
     <<48, 48, 48, 49, 32, 51>>, <<48, 48, 48, 51, 46, 55>>}

Payloads == TokenPayloads \cup EdgePayloads

\* the frame of a payload behind first byte marker, as the device sends it
FrameWith(marker, p) ==
    LET body == <<marker>> \o p
    IN  body \o <<CrcHi(calc_crc(body)), CrcLo(calc_crc(body))>> \o <<END_RESPONSE_MARKER>>

Frame(p) == FrameWith(START_RESPONSE_MARKER, p)

RECURSIVE Chunks(_)
\* a byte stream as consecutive 8-byte reads, the last one padded with zeros
Chunks(bytes) ==
    IF bytes = << >> THEN << >>
    ELSE IF Len(bytes) <= CHUNK_SIZE
         THEN <<bytes \o Zeros(CHUNK_SIZE - Len(bytes))>>
         ELSE <<SubSeq(bytes, 1, CHUNK_SIZE)>>
              \o Chunks(SubSeq(bytes, CHUNK_SIZE + 1, Len(bytes)))

RECURSIVE Pieces(_, _)
\* a byte stream as consecutive reads that write k bytes each, the last one
\* what is left
Pieces(bytes, k) ==
    IF Len(bytes) <= k THEN <<bytes>>
    ELSE <<SubSeq(bytes, 1, k)>> \o Pieces(SubSeq(bytes, k + 1, Len(bytes)), k)

\* a frame with its low checksum byte changed
BadCrcFrame(p) ==
    LET f == Frame(p)
    IN  [f EXCEPT ![Len(f) - 1] = (f[Len(f) - 1] + 1) % 256]

\* payloads that are not UTF-8: "0" 0xff, and 0xc3 "("
NotUtf8Payloads == {<<48, 255>>, <<195, 40>>}

\* frames that must be rejected: a wrong checksum, a wrong marker (with a
\* right and with a wrong checksum), a payload that is not UTF-8
BadFrames ==
    {BadCrcFrame(p) : p \in Tokens \cup NotUtf8Payloads}
    \cup {FrameWith(65, p) : p \in Tokens \cup NotUtf8Payloads}
    \cup {[FrameWith(65, p) EXCEPT ![Len(p) + 3] = (@ + 1) % 256] :
            p \in Tokens \cup NotUtf8Payloads}
    \cup {Frame(p) : p \in NotUtf8Payloads}

\* single chunks: frames of length 0, 1 and 2, an all-zero chunk, a chunk
\* without terminator, a terminator in the middle of a chunk, the chunks of
\* the tests' responses
RawChunks ==
    {<<13, 0, 0, 0, 0, 0, 0, 0>>,
     <<40, 13, 0, 0, 0, 0, 0, 0>>,
     <<65, 13, 0, 0, 0, 0, 0, 0>>,
     <<40, 1, 13, 0, 0, 0, 0, 0>>,
     <<0, 0, 0, 0, 0, 0, 0, 0>>,
     <<40, 13, 48, 0, 0, 0, 0, 0>>,
     <<40, 48, 32, 50, 51, 51, 46, 55>>,
     <<9, 199, 13, 0, 0, 0, 0, 0>>,
     <<9, 200, 13, 0, 0, 0, 0, 0>>,
     <<40, 48>>,
     <<40, 13>>,
     <<13>>}

\* what the device has to deliver, as a sequence of chunks
Streams ==
    {Chunks(Frame(p)) : p \in Payloads}
    \cup {Chunks(f) : f \in BadFrames}
    \cup SeqsOf(RawChunks, 0, MaxRawChunks)
    \cup {Pieces(Frame(<<48, 32, 50, 51, 51, 46, 55>>), k) : k \in {5, 7}}

CommandConfig(command, sensors) == [command |-> command, sensors |-> sensors]

\* the response of test_inverter_execute_command
TestStream == Chunks(Frame(<<48, 32, 50, 51, 51, 46, 55>>))

\* answers and configurations for runs of several commands
\* (the test's response, a wrong checksum, "012 4", a wrong marker on
\* "0 233.7", a chunk without terminator, a payload that is not UTF-8, "0 a")
FewStreams ==
    {TestStream, Chunks(BadCrcFrame(<<48>>)), Chunks(Frame(<<48, 49, 50, 32, 52>>)),
     Chunks(FrameWith(65, <<48, 32, 50, 51, 51, 46, 55>>)),
     <<<<40, 48, 32, 50, 51, 51, 46, 55>>>>,
     Chunks(Frame(<<48, 255>>)), Chunks(Frame(<<48, 32, 97>>))}

FewConfigs ==
    {CommandConfig(QPIGS, TestSensors),
     CommandConfig(<<81, 80, 73, 71, 83, 50>>, TestSensors)}

\* a configuration (config.inverter.commands) and the answers the device
\* gives, one after the other
Scenarios ==
    {[commands |-> <<CommandConfig(c, TestSensors)>>, answers |-> <<TestStream>>] :
        c \in CommandTexts}
    \cup {[commands |-> <<CommandConfig(QPIGS, TestSensors)>>, answers |-> <<w>>] :
        w \in Streams}
    \cup {[commands |-> <<CommandConfig(QPIGS, sl)>>, answers |-> <<Chunks(Frame(p))>>] :
        sl \in SensorLists, p \in TokenPayloads}
    \cup {[commands |-> cs, answers |-> ws] :
        cs \in SeqsOf(FewConfigs, 2, MaxCommands),
        ws \in SeqsOf(FewStreams, 2, MaxCommands)}

(***************************************************************************)
(* State.                                                                  *)
(*   commands   config.inverter.commands, executed in order                *)
(*   idx        the position in commands of the next execute_command call  *)
(*   wire       the chunks the device has still to deliver: the bytes it   *)
(*              writes to the buffer of each read, 8 or fewer              *)
(*   pc         "idle": no call is running; "reading": a call is in the    *)
(*              read loop of read_response; "aborted": a call panicked     *)
(*   resp       the accumulator of the running read_response               *)
(* What the last call did and returned:                                    *)
(*   cfg        its CommandConfig                                          *)
(*   request    the buffer it handed to send_request                       *)
(*   sends      the number of its send_request calls                       *)
(*   reads      the number of its read_response calls on the device        *)
(*   delivered  the chunks the device delivered to it, in order            *)
(*   frame      the reassembled frame its checks ran on                    *)
(*   decoded    what Inverter::read_response returned                      *)
(*   outcome    what execute_command returned                              *)
(* The device, for looking back:                                           *)
(*   device     answers: the answers it gives, each a sequence of chunks;  *)
(*              calls: for every call that sent its request, the chunks it *)
(*              read and how it ended ("running" until then); idle: what   *)
(*              its reads do once the answers are delivered ("fails" or    *)
(*              "zeros"); tick: the parity of the reads it served idle     *)
(* The checksum engine on its own:                                         *)
(*   crc        data: a byte vector; value: the last result of calc_crc on *)
(*              it; at: "off" (not used), "data", "digest" (value is the   *)
(*              CRC of data), "framed" (the two CRC bytes were pushed),    *)
(*              "verified" (value is the CRC of the framed data)           *)
(* A from_str call on its own:                                             *)
(*   parse      target: the shape of T; input: the string; de: the         *)
(*              Deserializer; fields: the names the SpaceSeparated has     *)
(*              still to yield; key: the key last yielded; asked: the      *)
(*              kinds of the elements still to be asked for; more: the     *)
(*              visitor asks until the sequence ends; within: the sequence *)
(*              is the target ("top") or the value of the key ("field");   *)
(*              elems: the elements collected; out: the values collected;  *)
(*              result: what from_str returned; at:                        *)
(*              "off" (not used), "start", "key" (before next_key_seed),   *)
(*              "value" (before next_value_seed), "element" (before        *)
(*              next_element_seed), "done"                                 *)
(* The program, main and run of main.rs:                                   *)
(*   poll       at: "off" (not used), "main" (the configuration is read),  *)
(*              "rejected" (main returned its error), "checked" (the       *)
(*              length check passed), "loop" (run is in its loop);         *)
(*              connected: the USB device is open and the MQTT client is   *)
(*              connected; cycle: the number of the running pass of the    *)
(*              loop; i: the position of the for loop in commands; sent:   *)
(*              the sensor states published for the command before i       *)
(***************************************************************************)
VARIABLES commands, idx, wire, pc, resp, device,
          cfg, request, sends, reads, delivered, frame, decoded, outcome, crc, parse,
          poll

inverterVars == <<commands, idx, wire, pc, resp, device,
                  cfg, request, sends, reads, delivered, frame, decoded, outcome>>

vars == <<inverterVars, crc, parse, poll>>

CrcOff == [at |-> "off", data |-> << >>, value |-> 0]

ParseOff == [at |-> "off"]

PollOff == [at |-> "off"]

NoDevice == [answers |-> << >>, calls |-> << >>, idle |-> "fails", tick |-> 0]

\* the device's record of a call that sent its request
Call(read, ended) == [read |-> read, ended |-> ended]

\* the running call has read chunk and ended as the tag says
Reads(dev, chunk, ended) ==
    [dev EXCEPT !.calls[Len(dev.calls)] =
        Call(IF chunk = << >> THEN @.read ELSE Append(@.read, chunk), ended)]

None == [tag |-> "None"]

DeviceError == [tag |-> "Device"]

\* the state after construction, with a device that, once its answers are
\* delivered, is idle as said: its reads fail (a time-out), or they succeed
\* and leave the buffer as it is (a transfer of no bytes)
InitWith(sc, idle) ==
        /\ commands = sc.commands
        /\ wire = Flatten(sc.answers)
        /\ device = [answers |-> sc.answers, calls |-> << >>, idle |-> idle, tick |-> 0]
        /\ idx = 1
        /\ pc = "idle"
        /\ resp = << >>
        /\ cfg = None
        /\ request = << >>
        /\ sends = 0
        /\ reads = 0
        /\ delivered = << >>
        /\ frame = None
        /\ decoded = None
        /\ outcome = None
        /\ crc = CrcOff
        /\ parse = ParseOff

Init == \E sc \in Scenarios : InitWith(sc, "fails") /\ poll = PollOff

CanCall == pc = "idle" /\ idx <= Len(commands)

\* execute_command returns r: the run loop goes on to the next command
\* (a panic unwinds through main and ends the process)
Return(r) ==
    /\ outcome' = r
    /\ pc' = IF r.tag = "Panic" THEN "aborted" ELSE "idle"
    /\ idx' = idx + 1
    /\ resp' = << >>

\* execute_command -> send_command: encode_command fails
SendTooLong ==
    /\ CanCall
    /\ encode_command(commands[idx].command).tag = "CommandTooLong"
    /\ cfg' = commands[idx]
    /\ request' = << >>
    /\ sends' = 0
    /\ reads' = 0
    /\ delivered' = << >>
    /\ frame' = None
    /\ decoded' = None
    /\ Return(encode_command(commands[idx].command))
    /\ UNCHANGED <<commands, wire, device, crc, parse, poll>>

\* execute_command -> send_command: send_request fails
SendFail ==
    /\ CanCall
    /\ encode_command(commands[idx].command).tag = "Ok"
    /\ cfg' = commands[idx]
    /\ request' = encode_command(commands[idx].command).value
    /\ sends' = 1
    /\ reads' = 0
    /\ delivered' = << >>
    /\ frame' = None
    /\ decoded' = None
    /\ Return(DeviceError)
    /\ UNCHANGED <<commands, wire, device, crc, parse, poll>>

\* execute_command -> send_command: send_request succeeds; read_response starts
SendOk ==
    /\ CanCall
    /\ encode_command(commands[idx].command).tag = "Ok"
    /\ cfg' = commands[idx]
    /\ request' = encode_command(commands[idx].command).value
    /\ sends' = 1
    /\ reads' = 0
    /\ delivered' = << >>
    /\ frame' = None
    /\ decoded' = None
    /\ outcome' = None
    /\ resp' = << >>
    /\ pc' = "reading"
    /\ device' = [device EXCEPT !.calls = Append(@, Call(<< >>, "running"))]
    /\ UNCHANGED <<commands, idx, wire, crc, parse, poll>>

\* a failed read answered by sending the request again and reading on
ReadFailRetry ==
    /\ pc = "reading"
    /\ reads' = reads + 1
    /\ sends' = sends + 1
    /\ reads < Len(wire) + 2
    /\ UNCHANGED <<commands, idx, wire, pc, resp, cfg, request, delivered, frame,
                   decoded, outcome, device, crc, parse, poll>>

\* a failed read taken for a read of no bytes: the loop goes on
ReadFailSkips ==
    /\ pc = "reading"
    /\ reads' = reads + 1
    /\ reads < Len(wire) + 2
    /\ UNCHANGED <<commands, idx, wire, pc, resp, cfg, request, sends, delivered, frame,
                   decoded, outcome, device, crc, parse, poll>>

\* the read loop: the device's read_response fails (a time-out when the device
\* has nothing to deliver)
ReadFail ==
    /\ pc = "reading"
    /\ reads' = reads + 1
    /\ decoded' = DeviceError
    /\ Return(DeviceError)
    /\ device' = Reads(device, << >>, "Device")
    /\ UNCHANGED <<commands, wire, cfg, request, sends, delivered, frame, crc, parse, poll>>

\* a buffer that is not cleared between the reads: behind the bytes written
\* it holds what the read before left there
ReadIntoStale(written) ==
    LET before == IF delivered = << >> THEN Zeros(CHUNK_SIZE)
                  ELSE Last(delivered) \o Zeros(CHUNK_SIZE - Len(Last(delivered)))
    IN  written \o SubSeq(before, Len(written) + 1, CHUNK_SIZE)

\* let mut buf = [0; 8]; read_response(&mut buf): the buffer after a read
\* that wrote the bytes to its front; the count the read returns is dropped
ReadInto(written) == written \o Zeros(CHUNK_SIZE - Len(written))

\* a terminator anywhere in the chunk ends the response
EndsResponseAnywhere(chunk) == \E i \in 1..Len(chunk) : chunk[i] = END_RESPONSE_MARKER

\* if let Some(&END_RESPONSE_MARKER) = chunk.last()
EndsResponse(chunk) == chunk # << >> /\ Last(chunk) = END_RESPONSE_MARKER

\* the marker is checked on the first chunk, before the response is complete
ReadMoreEager ==
    /\ pc = "reading"
    /\ wire # << >>
    /\ LET chunk == slice_trim_end_matches(ReadInto(Head(wire))) IN
        /\ ~EndsResponse(chunk)
        /\ IF resp = << >> /\ chunk # << >> /\ chunk[1] # START_RESPONSE_MARKER
           THEN /\ decoded' = [tag |-> "MissingResponseMarker"]
                /\ Return([tag |-> "MissingResponseMarker"])
                /\ device' = Reads(device, Head(wire), "MissingResponseMarker")
           ELSE /\ resp' = resp \o chunk
                /\ device' = Reads(device, Head(wire), "running")
                /\ UNCHANGED <<idx, pc, decoded, outcome>>
    /\ wire' = Tail(wire)
    /\ reads' = reads + 1
    /\ delivered' = Append(delivered, Head(wire))
    /\ UNCHANGED <<commands, cfg, request, sends, frame, crc, parse, poll>>

\* the read loop: a chunk that does not end the response
ReadMore ==
    /\ pc = "reading"
    /\ wire # << >>
    /\ LET chunk == slice_trim_end_matches(ReadInto(Head(wire))) IN
        /\ ~EndsResponse(chunk)
        /\ resp' = resp \o chunk
    /\ wire' = Tail(wire)
    /\ reads' = reads + 1
    /\ delivered' = Append(delivered, Head(wire))
    /\ device' = Reads(device, Head(wire), "running")
    /\ UNCHANGED <<commands, idx, pc, cfg, request, sends, frame, decoded, outcome, crc, parse, poll>>

\* what execute_command returns once read_response returned d
Finish(sensors, d) ==
    IF d.tag = "Ok" THEN ParseSensors(sensors, d.value) ELSE d

\* the read loop: the chunk that ends the response; then the checks of
\* read_response and the sensor loop of execute_command
ReadLast ==
    /\ pc = "reading"
    /\ wire # << >>
    /\ LET chunk == slice_trim_end_matches(ReadInto(Head(wire)))
           whole == DropLast(resp \o chunk, 1)
       IN
        /\ EndsResponse(chunk)
        /\ frame' = [tag |-> "Frame", bytes |-> whole]
        /\ decoded' = Validate(whole)
        /\ Return(Finish(cfg.sensors, Validate(whole)))
        /\ device' = Reads(device, Head(wire), Finish(cfg.sensors, Validate(whole)).tag)
    /\ wire' = Tail(wire)
    /\ reads' = reads + 1
    /\ delivered' = Append(delivered, Head(wire))
    /\ UNCHANGED <<commands, cfg, request, sends, crc, parse, poll>>

Next ==
    \/ SendTooLong
    \/ SendFail
    \/ SendOk
    \/ ReadFail
    \/ ReadMore
    \/ ReadLast

Spec == Init /\ [][Next]_vars

(***************************************************************************)
(* The read loop against a device that may go on answering reads with no   *)
(* bytes.  The loop is straight-line code of one thread and every read of  *)
(* the device returns, so a call in the loop takes its next read step.     *)
(***************************************************************************)
\* one command, against the test's answer or any single stream
LiveScenarios ==
    {[commands |-> <<CommandConfig(c, TestSensors)>>, answers |-> <<TestStream>>] :
        c \in CommandTexts}
    \cup {[commands |-> <<CommandConfig(QPIGS, TestSensors)>>, answers |-> <<w>>] :
        w \in Streams}

InitLive ==
    \E sc \in LiveScenarios : \E idle \in {"fails", "zeros"} :
        InitWith(sc, idle) /\ poll = PollOff

\* a read of the idle device that gives up after MaxReads reads
ReadIdleBounded ==
    /\ pc = "reading"
    /\ wire = << >>
    /\ device.idle = "zeros"
    /\ IF reads < MaxReads
       THEN /\ reads' = reads + 1
            /\ device' = [device EXCEPT !.tick = 1 - @]
            /\ UNCHANGED <<idx, pc, resp, decoded, outcome>>
       ELSE /\ decoded' = [tag |-> "TooManyReads"]
            /\ Return([tag |-> "TooManyReads"])
            /\ device' = Reads(device, << >>, "TooManyReads")
            /\ UNCHANGED reads
    /\ UNCHANGED <<commands, wire, cfg, request, sends, delivered, frame, crc, parse, poll>>

\* the read loop: the idle device's read succeeds and leaves buf = [0; 8] as
\* it is; the chunk is empty after trimming, nothing is appended, the loop
\* goes on (such chunks are not recorded in delivered)
ReadIdle ==
    /\ pc = "reading"
    /\ wire = << >>
    /\ device.idle = "zeros"
    /\ LET chunk == slice_trim_end_matches(Zeros(CHUNK_SIZE)) IN
        /\ ~EndsResponse(chunk)
        /\ resp' = resp \o chunk
    /\ reads' = IF reads < MaxReads THEN reads + 1 ELSE reads
    /\ device' = [device EXCEPT !.tick = 1 - @]
    /\ UNCHANGED <<commands, idx, wire, pc, cfg, request, sends, delivered, frame,
                   decoded, outcome, crc, parse, poll>>

\* a step of the loop of read_response
ReadStep ==
    \/ ReadFail
    \/ ReadMore
    \/ ReadLast
    \/ ReadIdle

NextLive ==
    \/ Next
    \/ ReadIdle

SpecLive == InitLive /\ [][NextLive]_vars /\ WF_vars(ReadStep)

(***************************************************************************)
(* The program: main checks the commands of the configuration, opens the   *)
(* device and the MQTT connection and calls run, which executes the        *)
(* commands in passes, publishes what each one returns and never returns.  *)
(* execute_command is the one of Spec, step by step; its steps are taken   *)
(* while the for loop is at the command (idx = poll.i), and the loop body  *)
(* goes on when the call has returned (idx = poll.i + 1).  Sleeps and log  *)
(* lines are left out; a publish may fail at any sensor.                   *)
(***************************************************************************)
\* configurations of one and two commands, one of 6 bytes among them, and
\* the answers of the device: "0 233.7", "0", a wrong checksum, a lone 0x0D
RunScenarios ==
    LET A == CommandConfig(QPIGS, TestSensors)
        B == CommandConfig(<<81, 73, 68>>,
                           <<Sensor("sensor2", "Integer"), Sensor("sensor1", "Float")>>)
        L == CommandConfig(<<81, 80, 73, 71, 83, 50>>, TestSensors)
        full == TestStream
        short == Chunks(Frame(<<48>>))
        bad == Chunks(BadCrcFrame(<<48>>))
        lone == <<<<13, 0, 0, 0, 0, 0, 0, 0>>>>
    IN  {[commands |-> cs, answers |-> ws] :
            cs \in {<<A>>, <<B>>, <<A, B>>, <<B, A>>, <<L>>, <<A, L>>},
            ws \in {<< >>, <<full>>, <<short>>, <<full, short>>, <<bad, full>>,
                    <<lone>>, <<full, full, short>>, <<short, bad, full, full>>}}

InitRun ==
    \E sc \in RunScenarios :
        /\ InitWith(sc, "fails")
        /\ poll = [at |-> "main", connected |-> FALSE, cycle |-> 1, i |-> 1,
                   sent |-> << >>]

\* a length check that looks at the first command only
CheckCommandsFirst ==
    /\ poll.at = "main"
    /\ poll' = [poll EXCEPT !.at =
            IF Len(commands[1].command) > MAX_COMMAND_LENGTH
            THEN "rejected" ELSE "checked"]
    /\ UNCHANGED <<inverterVars, crc, parse>>

\* main: "Check commands length": whatever! returns the error from main
CheckCommands ==
    /\ poll.at = "main"
    /\ poll' = [poll EXCEPT !.at =
            IF \E k \in 1..Len(commands) :
                    Len(commands[k].command) > MAX_COMMAND_LENGTH
            THEN "rejected" ELSE "checked"]
    /\ UNCHANGED <<inverterVars, crc, parse>>

\* main: the USB device is found, opened and claimed, the MQTT client
\* connects; run: create_entities, then the loop
Connect ==
    /\ poll.at = "checked"
    /\ poll' = [poll EXCEPT !.at = "loop", !.connected = TRUE]
    /\ UNCHANGED <<inverterVars, crc, parse>>

\* inverter.execute_command(&cmd_config): the steps of the call for the
\* command the for loop is at (encode_command does not fail here: the
\* commands have passed CheckCommands)
Execute ==
    /\ poll.at = "loop"
    /\ idx = poll.i
    /\ \/ SendFail
       \/ SendOk
       \/ ReadFail
       \/ ReadMore
       \/ ReadLast

\* the sensors of the command whose name sensors_data has, in their order,
\* each with the value its state is formatted from
States(sensors, sensors_data) ==
    LET present == SelectSeq(sensors,
                             LAMBDA s : s.some /\ s.name \in DOMAIN sensors_data)
    IN  [k \in 1..Len(present) |->
            [name |-> present[k].name, value |-> sensors_data[present[k].name]]]

\* the body of the for loop once execute_command has returned: an error is
\* logged and the loop continues; the states are published until a
\* publish fails
Publish ==
    /\ poll.at = "loop"
    /\ pc = "idle"
    /\ idx = poll.i + 1
    /\ IF outcome.tag = "Ok"
       THEN \E n \in 0..Len(States(cfg.sensors, outcome.value)) :
                poll' = [poll EXCEPT !.i = @ + 1,
                            !.sent = SubSeq(States(cfg.sensors, outcome.value), 1, n)]
       ELSE poll' = [poll EXCEPT !.i = @ + 1, !.sent = << >>]
    /\ UNCHANGED <<inverterVars, crc, parse>>

\* the for loop is through the commands: sleep, then the next pass
NextCycle ==
    /\ poll.at = "loop"
    /\ pc = "idle"
    /\ poll.i = Len(commands) + 1
    /\ idx = poll.i
    /\ poll.cycle < MaxCycles
    /\ poll' = [poll EXCEPT !.i = 1, !.cycle = @ + 1, !.sent = << >>]
    /\ idx' = 1
    /\ UNCHANGED <<commands, wire, pc, resp, device, cfg, request, sends, reads,
                   delivered, frame, decoded, outcome, crc, parse>>

NextRun ==
    \/ CheckCommands
    \/ Connect
    \/ Execute
    \/ Publish
    \/ NextCycle

SpecRun == InitRun /\ [][NextRun]_vars

(***************************************************************************)
(* calc_crc on its own: a byte vector is digested, its CRC is pushed high  *)
(* byte first (as encode_command does) and the framed vector is digested   *)
(* again (as read_response does).                                          *)
(***************************************************************************)
\* bytes for the vectors: 0x00, 0x01, '\r', '(', 'Q', 0xff
CrcBytes == {0, 1, 13, 40, 81, 255}

InitCrc ==
    \E d \in SeqsOf(CrcBytes, 0, MaxCrcLen) :
        /\ crc = [at |-> "data", data |-> d, value |-> 0]
        /\ commands = << >>
        /\ wire = << >>
        /\ device = NoDevice
        /\ idx = 1
        /\ pc = "idle"
        /\ resp = << >>
        /\ cfg = None
        /\ request = << >>
        /\ sends = 0
        /\ reads = 0
        /\ delivered = << >>
        /\ frame = None
        /\ decoded = None
        /\ outcome = None
        /\ parse = ParseOff
        /\ poll = PollOff

\* let crc = self.calc_crc(&res)
CalcCrc ==
    /\ crc.at \in {"data", "framed"}
    /\ crc' = [crc EXCEPT !.value = calc_crc(crc.data),
                          !.at = IF crc.at = "data" THEN "digest" ELSE "verified"]
    /\ UNCHANGED <<inverterVars, parse, poll>>

\* res.push((crc >> 8) as u8); res.push((crc & 0xff) as u8)
PushCrc ==
    /\ crc.at = "digest"
    /\ crc' = [crc EXCEPT !.data = crc.data \o <<CrcHi(crc.value), CrcLo(crc.value)>>,
                          !.at = "framed"]
    /\ UNCHANGED <<inverterVars, parse, poll>>

NextCrc ==
    \/ CalcCrc
    \/ PushCrc

SpecCrc == InitCrc /\ [][NextCrc]_vars

(***************************************************************************)
(* parse.rs: the deserializer for space separated values.                  *)
(* A Deserializer is [values, field]: values the tokens its                *)
(* SplitAsciiWhitespace has still to yield, field its Option<&str>.        *)
(* Every method is an operator from a Deserializer to [de, res]: the       *)
(* Deserializer it leaves behind and its result, [tag |-> "Ok", value] or  *)
(* [tag |-> "Err", error].                                                 *)
(***************************************************************************)
NoField == [some |-> FALSE]

SomeField(name) == [some |-> TRUE, name |-> name]

\* Deserializer::from_str
DeserializerFromStr(input) == [values |-> split_ascii_whitespace(input), field |-> NoField]

Ok(v) == [tag |-> "Ok", value |-> v]

Err(e) == [tag |-> "Err", error |-> e]

\* DeError::unsupported_type
unsupported_type(typ) == [kind |-> "UnsupportedType", typ |-> typ]

MissingField == [kind |-> "MissingField"]

ExpectedValue(f) == [kind |-> "ExpectedValue", field |-> f]

ExpectedChar(f) == [kind |-> "ExpectedChar", field |-> f]

ExpectedFloat(f, source) == [kind |-> "ExpectedFloat", field |-> f, source |-> source]

ExpectedInteger(f, source) == [kind |-> "ExpectedInteger", field |-> f, source |-> source]

\* Deserializer::field
field(d) == IF d.field.some THEN Ok(d.field.name) ELSE Err(MissingField)

\* the placeholder whatever the active field is
field_or_unknown_never(d) == "<unknown>"

\* Deserializer::field_or_unknown
field_or_unknown(d) == IF d.field.some THEN d.field.name ELSE "<unknown>"

\* the next token, left in the iterator
value_peek(d) ==
    IF d.values = << >>
    THEN [de |-> d, res |-> Err(ExpectedValue(IF d.field.some THEN d.field.name ELSE "<unknown>"))]
    ELSE [de |-> d, res |-> Ok(Head(d.values))]

\* Deserializer::value: the next token, taken from the iterator
value(d) ==
    IF d.values = << >>
    THEN [de |-> d, res |-> Err(ExpectedValue(field_or_unknown(d)))]
    ELSE [de |-> [d EXCEPT !.values = Tail(d.values)], res |-> Ok(Head(d.values))]

\* the kinds of scalar the deserializer yields
SignedKinds == {"i8", "i16", "i32", "i64"}

UnsignedKinds == {"u8", "u16", "u32", "u64"}

IntegerKinds == SignedKinds \cup UnsignedKinds

FloatKinds == {"f32", "f64"}

StringKinds == {"str", "string"}

ScalarKinds == IntegerKinds \cup FloatKinds \cup StringKinds \cup {"char"}

\* the kinds under "Unimplemented types"
UnsupportedKinds ==
    {"any", "bool", "bytes", "byte_buf", "option", "unit", "unit_struct",
     "newtype_struct", "tuple_struct", "map", "enum", "ignored_any"}

\* the decimal digits of the largest magnitude of an integer kind, on the
\* negative side (neg) or on the other
MaxMagnitude(kind, neg) ==
    IF kind = "i8" THEN (IF neg THEN <<1, 2, 8>> ELSE <<1, 2, 7>>)
    ELSE IF kind = "u8" THEN <<2, 5, 5>>
    ELSE IF kind = "i16" THEN (IF neg THEN <<3, 2, 7, 6, 8>> ELSE <<3, 2, 7, 6, 7>>)
    ELSE IF kind = "u16" THEN <<6, 5, 5, 3, 5>>
    ELSE IF kind = "i32" THEN (IF neg THEN <<2, 1, 4, 7, 4, 8, 3, 6, 4, 8>>
                                      ELSE <<2, 1, 4, 7, 4, 8, 3, 6, 4, 7>>)
    ELSE IF kind = "u32" THEN <<4, 2, 9, 4, 9, 6, 7, 2, 9, 5>>
    ELSE IF kind = "i64"
         THEN (IF neg THEN <<9, 2, 2, 3, 3, 7, 2, 0, 3, 6, 8, 5, 4, 7, 7, 5, 8, 0, 8>>
                      ELSE <<9, 2, 2, 3, 3, 7, 2, 0, 3, 6, 8, 5, 4, 7, 7, 5, 8, 0, 7>>)
    ELSE <<1, 8, 4, 4, 6, 7, 4, 4, 0, 7, 3, 7, 0, 9, 5, 5, 1, 6, 1, 5>>

RECURSIVE StripZeros(_)
\* ASCII digits without their leading '0's
StripZeros(s) ==
    IF s = << >> THEN << >> ELSE IF Head(s) = 48 THEN StripZeros(Tail(s)) ELSE s

RECURSIVE LexLeq(_, _)
\* ASCII digits a (as many as in b) are at most the digits b
LexLeq(a, b) ==
    IF a = << >> THEN TRUE
    ELSE IF Head(a) - 48 < Head(b) THEN TRUE
    ELSE IF Head(a) - 48 > Head(b) THEN FALSE
    ELSE LexLeq(Tail(a), Tail(b))

\* the number written by the ASCII digits s is at most the one with digits b
DigitsLeq(s, b) ==
    LET a == StripZeros(s) IN
    Len(a) < Len(b) \/ (Len(a) = Len(b) /\ LexLeq(a, b))

\* <integer>::from_str: a '+', or for a signed kind a '-', then one or more
\* decimal digits whose number the kind can hold
ParseInteger(kind, s) ==
    LET signed == s # << >> /\ (s[1] = 43 \/ (s[1] = 45 /\ kind \in SignedKinds))
        neg == signed /\ s[1] = 45
        digits == IF signed THEN Tail(s) ELSE s
    IN  IF s = << >> THEN [ok |-> FALSE, source |-> "Empty"]
        ELSE IF digits = << >> \/ ~AllDigits(digits)
             THEN [ok |-> FALSE, source |-> "InvalidDigit"]
        ELSE IF ~DigitsLeq(digits, MaxMagnitude(kind, neg))
             THEN [ok |-> FALSE, source |-> IF neg THEN "NegOverflow" ELSE "PosOverflow"]
        ELSE [ok |-> TRUE, value |-> (IF neg THEN -1 ELSE 1) * DigitsValue(digits)]

\* a value of a scalar kind
Scalar(kind, v) == [typ |-> kind, v |-> v]

\* deserialize_i8 .. deserialize_u64: the token is taken, then parsed
deserialize_integer(kind, d) ==
    LET t == value(d) IN
    IF t.res.tag = "Err" THEN t
    ELSE LET r == ParseInteger(kind, t.res.value) IN
         IF r.ok THEN [de |-> t.de, res |-> Ok(Scalar(kind, r.value))]
         ELSE [de |-> t.de, res |-> Err(ExpectedInteger(field_or_unknown(t.de), r.source))]

\* deserialize_f32, deserialize_f64
deserialize_float(kind, d) ==
    LET t == value(d) IN
    IF t.res.tag = "Err" THEN t
    ELSE LET r == ParseF64(t.res.value) IN
         IF r.ok THEN [de |-> t.de, res |-> Ok(Scalar(kind, r.value))]
         ELSE [de |-> t.de, res |-> Err(ExpectedFloat(field_or_unknown(t.de), r.source))]

\* a char that looks at the token and takes it only when it is one byte
deserialize_char_peek(d) ==
    IF d.values = << >> THEN value(d)
    ELSE IF Len(Head(d.values)) # 1
         THEN [de |-> d, res |-> Err(ExpectedChar(field_or_unknown(d)))]
         ELSE [de |-> value(d).de, res |-> Ok(Scalar("char", Head(d.values)[1]))]

\* deserialize_char: a token of one byte
deserialize_char(d) ==
    LET t == value(d) IN
    IF t.res.tag = "Err" THEN t
    ELSE IF Len(t.res.value) # 1
         THEN [de |-> t.de, res |-> Err(ExpectedChar(field_or_unknown(t.de)))]
         ELSE [de |-> t.de, res |-> Ok(Scalar("char", t.res.value[1]))]

\* deserialize_str, deserialize_string: the token as it is
deserialize_str(kind, d) ==
    LET t == value(d) IN
    IF t.res.tag = "Err" THEN t
    ELSE [de |-> t.de, res |-> Ok(Scalar(kind, t.res.value))]

\* deserialize_identifier: the active field name, no token
deserialize_identifier(d) == [de |-> d, res |-> field(d)]

\* an unsupported kind that takes the next token before it fails
deserialize_unsupported_taking(kind, d) ==
    [de |-> value(d).de, res |-> Err(unsupported_type(kind))]

\* deserialize_any .. deserialize_ignored_any
deserialize_unsupported(kind, d) == [de |-> d, res |-> Err(unsupported_type(kind))]

\* the deserialize_* method a value of the kind asks for
deserialize(kind, d) ==
    IF kind \in IntegerKinds THEN deserialize_integer(kind, d)
    ELSE IF kind \in FloatKinds THEN deserialize_float(kind, d)
    ELSE IF kind = "char" THEN deserialize_char(d)
    ELSE IF kind \in StringKinds THEN deserialize_str(kind, d)
    ELSE deserialize_unsupported(kind, d)

(***************************************************************************)
(* from_str::<T>: the shape of T drives the deserializer.                  *)
(*   a struct   deserialize_struct, then for every name of its fields      *)
(*              next_key_seed (an identifier) and next_value_seed (a value *)
(*              of the field's kind), until next_key_seed yields None      *)
(*   a tuple    deserialize_tuple, then next_element_seed once for every   *)
(*              element                                                    *)
(*   a scalar   its deserialize_* method                                   *)
(***************************************************************************)
\* the longest generated field list of a struct, or element list of a tuple
MaxFields == 2

\* the most tokens of a generated input of from_str
MaxDeTokens == 3

Field(name, kind) == [name |-> name, kind |-> kind]

StructOf(fields) == [shape |-> "struct", fields |-> fields]

TupleOf(kinds) == [shape |-> "tuple", kinds |-> kinds]

ScalarOf(kind) == [shape |-> "scalar", kind |-> kind]

\* struct Data { voltage: f32, frequency: f32, status: String }
Data ==
    StructOf(<<Field("voltage", "f32"), Field("frequency", "f32"),
               Field("status", "string")>>)

\* the targets of the tests: Data, (f64, f64, String), (f64, f64, u32)
TestShapes ==
    {Data, TupleOf(<<"f64", "f64", "string">>), TupleOf(<<"f64", "f64", "u32">>)}

FieldNames == <<"voltage", "frequency", "status", "mode", "flags">>

\* the kinds of the fields and elements of generated shapes
FieldKinds == {"f32", "u8", "char", "string", "bool"}

NamedFields(kinds) == [i \in 1..Len(kinds) |-> Field(FieldNames[i], kinds[i])]

GenShapes ==
    {StructOf(NamedFields(ks)) : ks \in SeqsOf(FieldKinds, 0, MaxFields)}
    \cup {TupleOf(ks) : ks \in SeqsOf(FieldKinds, 1, MaxFields)}

\* a field whose value is a tuple of the kinds, or a sequence of the one kind
TupleField(name, kinds) == [name |-> name, kind |-> "tuple", of |-> kinds]

SeqField(name, kind) == [name |-> name, kind |-> "seq", of |-> <<kind>>]

\* a sequence of any length of the kind, as a Vec
SeqOf(kind) == [shape |-> "seq", kinds |-> <<kind>>]

\* structs with a tuple or a sequence as the value of a field, and sequences
NestedShapes ==
    {StructOf(<<Field("voltage", "f32"), TupleField("frequency", <<"u8", "char">>),
                Field("status", "string")>>),
     StructOf(<<Field("voltage", "u8"), SeqField("frequency", "f32"),
                Field("status", "string")>>),
     StructOf(<<TupleField("voltage", <<"f32", "bool">>)>>)}
    \cup {SeqOf(k) : k \in FieldKinds}

\* the tokens "233.6", "01001", "a", "7"
DeTokens == {<<50, 51, 51, 46, 54>>, <<48, 49, 48, 48, 49>>, <<97>>, <<55>>}

\* "233.6 49.9 01001 000", "233.6 49.9", "233.6 49.9 01001 00010000"
TestInputs ==
    {<<50, 51, 51, 46, 54, 32, 52, 57, 46, 57, 32, 48, 49, 48, 48, 49, 32, 48, 48, 48>>,
     <<50, 51, 51, 46, 54, 32, 52, 57, 46, 57>>,
     <<50, 51, 51, 46, 54, 32, 52, 57, 46, 57, 32, 48, 49, 48, 48, 49, 32,
       48, 48, 48, 49, 48, 48, 48, 48>>}

\* "", "a", "233.6 a", "-1 233.6 01001", "7 a 233.6", and the inputs of the tests
FewInputs ==
    {<< >>, <<97>>, <<50, 51, 51, 46, 54, 32, 97>>,
     <<45, 49, 32, 50, 51, 51, 46, 54, 32, 48, 49, 48, 48, 49>>,
     <<55, 32, 97, 32, 50, 51, 51, 46, 54>>} \cup TestInputs

DeInputs == {JoinTokens(ts) : ts \in SeqsOf(DeTokens, 0, MaxDeTokens)} \cup FewInputs

\* a target type and an input string of from_str
DeScenarios ==
    {[target |-> t, input |-> i] :
        t \in TestShapes \cup NestedShapes
                \cup {ScalarOf(k) : k \in ScalarKinds \cup UnsupportedKinds},
        i \in DeInputs}
    \cup {[target |-> t, input |-> i] : t \in GenShapes, i \in FewInputs}

InitDe ==
    \E sc \in DeScenarios :
        /\ parse = [at |-> "start", target |-> sc.target, input |-> sc.input,
                    de |-> DeserializerFromStr(sc.input), fields |-> << >>,
                    key |-> "", asked |-> << >>, more |-> FALSE, within |-> "top",
                    elems |-> << >>, out |-> << >>, result |-> None]
        /\ crc = CrcOff
        /\ poll = PollOff
        /\ commands = << >>
        /\ wire = << >>
        /\ device = NoDevice
        /\ idx = 1
        /\ pc = "idle"
        /\ resp = << >>
        /\ cfg = None
        /\ request = << >>
        /\ sends = 0
        /\ reads = 0
        /\ delivered = << >>
        /\ frame = None
        /\ decoded = None
        /\ outcome = None

\* from_str returns r
DeDone(d, out, r) ==
    parse' = [parse EXCEPT !.at = "done", !.de = d, !.out = out, !.result = r]

\* deserialize_struct: SpaceSeparated::new(self, fields), visit_map
DeserializeStruct ==
    /\ parse.at = "start"
    /\ parse.target.shape = "struct"
    /\ parse' = [parse EXCEPT !.at = "key",
                              !.fields = [i \in 1..Len(parse.target.fields) |->
                                            parse.target.fields[i].name]]
    /\ UNCHANGED <<inverterVars, crc, poll>>

\* a key request that makes the name the active field only while none is set
NextKeyOnce ==
    /\ parse.at = "key"
    /\ IF parse.fields # << >>
       THEN parse' = [parse EXCEPT !.at = "value",
                                   !.de = IF parse.de.field.some THEN parse.de
                                          ELSE [parse.de EXCEPT
                                                  !.field = SomeField(Head(parse.fields))],
                                   !.fields = Tail(parse.fields),
                                   !.key = Head(parse.fields)]
       ELSE DeDone(parse.de, parse.out, Ok(parse.out))
    /\ UNCHANGED <<inverterVars, crc, poll>>

\* MapAccess::next_key_seed: the next name becomes the active field and the
\* key; without a name left the map ends and the struct is complete
NextKey ==
    /\ parse.at = "key"
    /\ IF parse.fields # << >>
       THEN LET d == [parse.de EXCEPT !.field = SomeField(Head(parse.fields))]
                k == deserialize_identifier(d)
            IN  IF k.res.tag = "Err" THEN DeDone(k.de, parse.out, k.res)
                ELSE parse' = [parse EXCEPT !.at = "value", !.de = k.de,
                                            !.fields = Tail(parse.fields),
                                            !.key = k.res.value]
       ELSE DeDone(parse.de, parse.out, Ok(parse.out))
    /\ UNCHANGED <<inverterVars, crc, poll>>

\* the field of a struct shape that the key names
FieldOf(target, name) ==
    target.fields[CHOOSE i \in 1..Len(target.fields) : target.fields[i].name = name]

\* a value request that takes the active field away, as take_field would
NextValueTakesField ==
    /\ parse.at = "value"
    /\ LET f == FieldOf(parse.target, parse.key)
           d == [parse.de EXCEPT !.field = NoField]
       IN
        IF f.kind \in {"tuple", "seq"}
        THEN parse' = [parse EXCEPT !.at = "element", !.de = d, !.asked = f.of,
                                    !.more = (f.kind = "seq"), !.within = "field",
                                    !.elems = << >>]
        ELSE LET r == deserialize(f.kind, d) IN
             IF r.res.tag = "Err" THEN DeDone(r.de, parse.out, r.res)
             ELSE parse' = [parse EXCEPT !.at = "key", !.de = r.de,
                                         !.out = Insert(parse.out, parse.key, r.res.value)]
    /\ UNCHANGED <<inverterVars, crc, poll>>

\* MapAccess::next_value_seed: the value of the field the key names; for a
\* tuple or a sequence deserialize_tuple or deserialize_seq, and visit_seq
NextValue ==
    /\ parse.at = "value"
    /\ LET f == FieldOf(parse.target, parse.key) IN
        IF f.kind \in {"tuple", "seq"}
        THEN parse' = [parse EXCEPT !.at = "element", !.asked = f.of,
                                    !.more = (f.kind = "seq"), !.within = "field",
                                    !.elems = << >>]
        ELSE LET r == deserialize(f.kind, parse.de) IN
             IF r.res.tag = "Err" THEN DeDone(r.de, parse.out, r.res)
             ELSE parse' = [parse EXCEPT !.at = "key", !.de = r.de,
                                         !.out = Insert(parse.out, parse.key, r.res.value)]
    /\ UNCHANGED <<inverterVars, crc, poll>>

\* deserialize_tuple: deserialize_seq, SpaceSeparated::new(self, &[]), visit_seq
DeserializeTuple ==
    /\ parse.at = "start"
    /\ parse.target.shape \in {"tuple", "seq"}
    /\ parse' = [parse EXCEPT !.at = "element", !.asked = parse.target.kinds,
                              !.more = (parse.target.shape = "seq"), !.within = "top"]
    /\ UNCHANGED <<inverterVars, crc, poll>>

\* the visitor has all its elements: they are the value of the field, or
\* what from_str returns
ElementsDone(d, es) ==
    IF parse.within = "field"
    THEN parse' = [parse EXCEPT !.at = "key", !.de = d, !.asked = << >>, !.elems = << >>,
                                !.out = Insert(parse.out, parse.key, es)]
    ELSE DeDone(d, es, Ok(es))

\* what the visitor does with r, the result of next_element_seed: a tuple
\* asks for its next element or is complete, a Vec asks on
ElementGot(r) ==
    IF r.res.tag = "Err" THEN DeDone(r.de, parse.out, r.res)
    ELSE LET es == Append(parse.elems, r.res.value) IN
         IF parse.more THEN parse' = [parse EXCEPT !.de = r.de, !.elems = es]
         ELSE IF Len(parse.asked) > 1
              THEN parse' = [parse EXCEPT !.de = r.de, !.asked = Tail(parse.asked),
                                          !.elems = es]
              ELSE ElementsDone(r.de, es)

\* a sequence that ends when the tokens do: a Vec is complete, the visitor of
\* a tuple misses an element
NextElementEnds ==
    /\ parse.at = "element"
    /\ IF parse.de.values = << >>
       THEN IF parse.more
            THEN ElementsDone(parse.de, parse.elems)
            ELSE DeDone(parse.de, parse.out,
                        Err([kind |-> "Message", msg |-> "invalid length"]))
       ELSE ElementGot(deserialize(Head(parse.asked), parse.de))
    /\ UNCHANGED <<inverterVars, crc, poll>>

\* SeqAccess::next_element_seed: the next element, always Some or an error
NextElement ==
    /\ parse.at = "element"
    /\ ElementGot(deserialize(Head(parse.asked), parse.de))
    /\ UNCHANGED <<inverterVars, crc, poll>>

\* T::deserialize of a scalar: its deserialize_* method
DeserializeScalar ==
    /\ parse.at = "start"
    /\ parse.target.shape = "scalar"
    /\ LET r == deserialize(parse.target.kind, parse.de) IN
        DeDone(r.de, parse.out, r.res)
    /\ UNCHANGED <<inverterVars, crc, poll>>

NextDe ==
    \/ DeserializeStruct
    \/ NextKey
    \/ NextValue
    \/ DeserializeTuple
    \/ NextElement
    \/ DeserializeScalar

SpecDe == InitDe /\ [][NextDe]_vars

(***************************************************************************)
(* Properties.                                                             *)
(***************************************************************************)
Finished == outcome # None

Checked == frame # None

Min(a, b) == IF a < b THEN a ELSE b

\* the chunks as the read loop appends them: each without its trailing zeros
RECURSIVE Trimmed(_)
Trimmed(cs) ==
    IF cs = << >> THEN << >>
    ELSE slice_trim_end_matches(Head(cs)) \o Trimmed(Tail(cs))

\* C1: a response whose frame '(' ++ p ++ be16(crc16('(' ++ p)) ++ 0x0D the
\* device holds as consecutive 8-byte chunks (the last one zero-padded) is
\* decoded by read_response to exactly p.
C1_RoundTrip ==
    \A p \in Payloads :
        (decoded.tag \notin {"None", "Device"} /\ delivered \o wire = Chunks(Frame(p)))
            => decoded = [tag |-> "Ok", value |-> p]

\* C2: when read_response returns a string s, the frame accumulated from the
\* trimmed chunks (terminator removed) is '(' ++ s ++ c1 ++ c2, its CRC is 0 and
\* (c1, c2) is the big-endian CRC of '(' ++ s.
C2_AcceptanceSound ==
    decoded.tag = "Ok" =>
        LET b == frame.bytes
            s == decoded.value
        IN  /\ Trimmed(delivered) = b \o <<END_RESPONSE_MARKER>>
            /\ Len(b) = Len(s) + 3
            /\ b = <<START_RESPONSE_MARKER>> \o s \o <<b[Len(b) - 1], b[Len(b)]>>
            /\ calc_crc(b) = 0
            /\ b[Len(b) - 1] = CrcHi(calc_crc(<<START_RESPONSE_MARKER>> \o s))
            /\ b[Len(b)] = CrcLo(calc_crc(<<START_RESPONSE_MARKER>> \o s))

C2_Witness ==
    /\ decoded.tag = "Ok"
    /\ Len(delivered) = 2
    /\ Len(decoded.value) = 7

\* CRC-16/XMODEM bit by bit: for every message bit, most significant first,
\* shift the register left and xor 0x1021 in when the bit shifted out differs
\* from the message bit; register 0 at the start, no reflection, no final xor
RECURSIVE XmodemBits(_, _, _)
XmodemBits(reg, byte, n) ==
    IF n = 0 THEN reg
    ELSE IF (byte \div 128) % 2 # reg \div 32768
         THEN XmodemBits(Xor((reg * 2) % 65536, 4129, 16), (byte * 2) % 256, n - 1)
         ELSE XmodemBits((reg * 2) % 65536, (byte * 2) % 256, n - 1)

RECURSIVE Xmodem(_, _)
Xmodem(reg, d) ==
    IF d = << >> THEN reg ELSE Xmodem(XmodemBits(reg, Head(d), 8), Tail(d))

\* C3: calc_crc is CRC-16/XMODEM (0x31c3 for "123456789"), and for every byte
\* sequence d the CRC of d followed by the high and the low byte of
\* calc_crc(d) is 0.
C3_CrcSelfVerifies ==
    /\ crc.at \in {"digest", "verified"} => crc.value = Xmodem(0, crc.data)
    /\ crc.at = "verified" => crc.value = 0
    /\ calc_crc(<<49, 50, 51, 52, 53, 54, 55, 56, 57>>) = 12739

C3_Witness ==
    /\ crc.at = "verified"
    /\ Len(crc.data) = 5
    /\ crc.data[4] # 0
    /\ crc.data[5] # 0

\* C4: the buffer handed to send_request is the command (at most 5 bytes), the
\* high then the low byte of its CRC, 0x0D, and zero bytes up to 8 bytes;
\* for "QPIGS" it is [81,80,73,71,83,183,169,13].
C4_EncodeLayout ==
    sends = 1 =>
        LET c == cfg.command
            sum == calc_crc(c)
        IN  /\ Len(c) <= 5
            /\ Len(request) = 8
            /\ SubSeq(request, 1, Len(c)) = c
            /\ request[Len(c) + 1] = sum \div 256
            /\ request[Len(c) + 2] = sum % 256
            /\ request[Len(c) + 3] = 13
            /\ \A i \in (Len(c) + 4)..8 : request[i] = 0
            /\ (c = QPIGS => request = <<81, 80, 73, 71, 83, 183, 169, 13>>)

C4_Witness ==
    /\ sends = 1
    /\ Len(cfg.command) = 3
    /\ request[7] = 0 /\ request[8] = 0 /\ request[6] = 13

\* C5: a reassembled frame that starts with '(' and whose CRC is not 0 makes
\* read_response fail with InvalidCrc: expected is the CRC of the frame without
\* its last two bytes, actual the last two bytes big-endian, data the frame
\* without its last two bytes; "(0 233.7" with 09 c8 gives 0x09c7, 0x09c8.
C5_CrcMismatchReport ==
    (Checked /\ frame.bytes # << >> /\ frame.bytes[1] = START_RESPONSE_MARKER
        /\ calc_crc(frame.bytes) # 0)
    =>  /\ decoded.tag = "InvalidCrc"
        /\ decoded.expected = FormatHex(calc_crc(DropLast(frame.bytes, 2)))
        /\ decoded.actual
            = FormatHex(frame.bytes[Len(frame.bytes) - 1] * 256 + Last(frame.bytes))
        /\ decoded.data = DropLast(frame.bytes, 2)
        /\ (frame.bytes = <<40, 48, 32, 50, 51, 51, 46, 55, 9, 200>> =>
                /\ decoded.expected = <<48, 120, 48, 57, 99, 55>>
                /\ decoded.actual = <<48, 120, 48, 57, 99, 56>>
                /\ decoded.data = <<40, 48, 32, 50, 51, 51, 46, 55>>)

\* C6: a reassembled frame whose first byte is not '(' fails with
\* MissingResponseMarker, whatever its checksum and payload bytes are.
C6_MarkerFirst ==
    (Checked /\ frame.bytes # << >> /\ frame.bytes[1] # START_RESPONSE_MARKER)
    =>  /\ decoded = [tag |-> "MissingResponseMarker"]
        /\ outcome = [tag |-> "MissingResponseMarker"]

C6_Witness ==
    /\ Checked
    /\ Len(frame.bytes) >= 3
    /\ frame.bytes[1] # START_RESPONSE_MARKER
    /\ calc_crc(frame.bytes) # 0
    /\ ~Utf8Valid(SubSeq(frame.bytes, 2, Len(frame.bytes) - 2))

\* C7: once a terminating chunk was read, read_response ends with a string or
\* with one of Device, MissingResponseMarker, InvalidCrc, ExpectedUtf8, also
\* for a reassembled frame of length 0, 1 or 2.
C7_TypedResult ==
    Checked =>
        decoded.tag \in {"Ok", "Device", "MissingResponseMarker", "InvalidCrc",
                         "ExpectedUtf8"}

\* C8 as stated: every call performs exactly one send_request and one or more
\* read_response calls.
C8_OneSendSomeReads == Finished => (sends = 1 /\ reads >= 1)

\* C8: a call performs at most one send_request, exactly one unless its
\* command is longer than 5 bytes; read_response is called only after that
\* send, and at least once in every call that ends with anything but
\* CommandTooLong or the Device error of the failed send_request.
C8_TransportUsage ==
    /\ sends <= 1
    /\ cfg # None => (sends = 1 <=> Len(cfg.command) <= MAX_COMMAND_LENGTH)
    /\ reads >= 1 => sends = 1
    /\ reads = Len(delivered) + (IF decoded = DeviceError THEN 1 ELSE 0)
    /\ (Finished /\ reads = 0) =>
            \/ (outcome.tag = "CommandTooLong" /\ sends = 0)
            \/ (outcome = DeviceError /\ sends = 1)
    /\ pc = "reading" => sends = 1

C8_Witness ==
    /\ Finished
    /\ sends = 1
    /\ reads = 3
    /\ outcome = DeviceError

\* C9: a command longer than 5 bytes makes execute_command fail with
\* CommandTooLong carrying the command text, without any send_request or
\* read_response on the transport.
C9_CommandTooLong ==
    (cfg # None /\ Len(cfg.command) > 5)
    =>  /\ outcome = [tag |-> "CommandTooLong", cmd |-> cfg.command]
        /\ pc = "idle"
        /\ sends = 0
        /\ reads = 0
        /\ request = << >>
        /\ delivered = << >>

C9_Witness ==
    /\ idx = 3
    /\ outcome.tag = "CommandTooLong"
    /\ Len(outcome.cmd) = 6
    /\ wire # << >>

\* the positions at which a descriptor and a token are paired
Paired == 1..Min(Len(cfg.sensors), Len(split_ascii_whitespace(decoded.value)))

PresentAt(i) == cfg.sensors[i].some

TokenAt(i) == split_ascii_whitespace(decoded.value)[i]

\* convert(type, ti): Integer as i64, Float as f64, String verbatim
Expected(i) ==
    LET t == cfg.sensors[i].value_type IN
    IF t = "Integer" THEN IntegerValue(ParseI64(TokenAt(i)).value)
    ELSE IF t = "Float" THEN FloatValue(ParseF64(TokenAt(i)).value)
    ELSE StringValue(TokenAt(i))

\* C10 as stated: every paired position with a present descriptor has its
\* name -> convert(type, ti) in the result.
C10_EveryPositionInResult ==
    outcome.tag = "Ok" =>
        \A i \in Paired :
            PresentAt(i) =>
                /\ cfg.sensors[i].name \in DOMAIN outcome.value
                /\ outcome.value[cfg.sensors[i].name] = Expected(i)

\* C10: the result holds exactly the names of the present descriptors at paired
\* positions; a name maps to convert(type, ti) of the last paired position i
\* that carries it; an absent descriptor consumes its token, adds nothing and
\* raises no error; [None, Some(float sensor1)] against "0 233.7" gives
\* {sensor1: Float(233.7)}.
C10_PositionalParse ==
    /\ outcome.tag = "Ok" =>
        /\ DOMAIN outcome.value = {cfg.sensors[i].name : i \in {j \in Paired : PresentAt(j)}}
        /\ \A i \in Paired :
            (PresentAt(i) /\ \A j \in Paired :
                                (j > i /\ PresentAt(j)) => cfg.sensors[j].name # cfg.sensors[i].name)
            => outcome.value[cfg.sensors[i].name] = Expected(i)
        /\ (cfg.sensors = TestSensors /\ decoded.value = <<48, 32, 50, 51, 51, 46, 55>>)
            => outcome.value = [sensor1 |-> FloatValue([m |-> 2337, e |-> -1])]
    /\ (decoded.tag = "Ok" /\ outcome.tag # "Ok") =>
            \E i \in Paired : PresentAt(i) /\ ~Convert(cfg.sensors[i], TokenAt(i)).ok

C10_Witness ==
    /\ outcome.tag = "Ok"
    /\ Len(cfg.sensors) = 2
    /\ ~PresentAt(1) /\ PresentAt(2)
    /\ cfg.sensors[2].value_type = "Integer"
    /\ split_ascii_whitespace(decoded.value) = <<<<97>>, <<48>>>>
    /\ outcome.value = [sensor2 |-> IntegerValue(0)]

\* the paired positions whose present descriptor is Integer or Float and whose
\* token does not convert to that type
FailsAt(i) ==
    /\ PresentAt(i)
    /\ \/ cfg.sensors[i].value_type = "Integer" /\ ~ParseI64(TokenAt(i)).ok
       \/ cfg.sensors[i].value_type = "Float" /\ ~ParseF64(TokenAt(i)).ok

LowestFailing == CHOOSE i \in Paired : FailsAt(i) /\ \A j \in Paired : FailsAt(j) => i <= j

\* C11: when at some paired position the token does not convert to its present
\* descriptor's integer or float type, execute_command fails with ParseResponse
\* wrapping ExpectedInteger or ExpectedFloat (as the descriptor declares) and
\* the name of the sensor at the lowest such position; no map is returned;
\* [Some(float sensor1)] against "a" gives ExpectedFloat for sensor1.
C11_PositionalParseError ==
    /\ (decoded.tag = "Ok" /\ \E i \in Paired : FailsAt(i)) =>
        /\ outcome.tag = "ParseResponse"
        /\ DOMAIN outcome = {"tag", "kind", "sensor", "source"}
        /\ outcome.sensor = cfg.sensors[LowestFailing].name
        /\ outcome.kind = IF cfg.sensors[LowestFailing].value_type = "Integer"
                          THEN "ExpectedInteger" ELSE "ExpectedFloat"
    /\ (decoded.tag = "Ok" /\ decoded.value = <<97>>
            /\ cfg.sensors = <<Sensor("sensor1", "Float")>>) =>
        /\ frame.bytes = <<40, 97, 243, 200>>
        /\ outcome.kind = "ExpectedFloat"
        /\ outcome.sensor = "sensor1"

\* both paired tokens fail, under different types and names
C11_Witness ==
    /\ outcome.tag = "ParseResponse"
    /\ Len(cfg.sensors) = 2
    /\ Paired = {1, 2}
    /\ FailsAt(1) /\ FailsAt(2)
    /\ cfg.sensors[1].value_type = "Integer"
    /\ cfg.sensors[2].value_type = "Float"
    /\ outcome.sensor = "sensor2"

RespTokens == split_ascii_whitespace(decoded.value)

\* C12 as stated: the result of a call has no entry for a descriptor at a
\* position from the number of tokens on.
C12_NoEntryBeyondTokens ==
    outcome.tag = "Ok" =>
        \A i \in 1..Len(cfg.sensors) :
            (i > Len(RespTokens) /\ PresentAt(i)) => cfg.sensors[i].name \notin DOMAIN outcome.value

\* C12: descriptors and tokens are paired for the first min(#descriptors,
\* #tokens) positions only. Too few tokens are no error: the call succeeds
\* whenever every paired token converts, and a descriptor behind the last
\* token adds no entry (its name is in the result only when a paired present
\* descriptor carries the same name). Tokens behind the last descriptor are
\* ignored: the call returns what it returns without them.
C12_PositionalTruncation ==
    decoded.tag = "Ok" =>
        /\ (\A i \in Paired : ~FailsAt(i)) => outcome.tag = "Ok"
        /\ outcome.tag = "Ok" =>
            /\ \A k \in DOMAIN outcome.value :
                    \E i \in Paired : PresentAt(i) /\ cfg.sensors[i].name = k
                                       /\ outcome.value[k] = Expected(i)
            /\ \A i \in 1..Len(cfg.sensors) :
                    (i > Len(RespTokens) /\ PresentAt(i)
                        /\ \A j \in Paired : PresentAt(j) => cfg.sensors[j].name # cfg.sensors[i].name)
                    => cfg.sensors[i].name \notin DOMAIN outcome.value
        /\ outcome = ParseSensors(cfg.sensors,
                                  JoinTokens(SubSeq(RespTokens, 1, Min(Len(cfg.sensors), Len(RespTokens)))))
        /\ outcome = ParseSensors(SubSeq(cfg.sensors, 1, Min(Len(cfg.sensors), Len(RespTokens))),
                                  decoded.value)

\* one token for two present descriptors of different names
C12_Witness ==
    /\ outcome.tag = "Ok"
    /\ Len(cfg.sensors) = 2
    /\ Len(RespTokens) = 1
    /\ PresentAt(1) /\ PresentAt(2)
    /\ cfg.sensors[1].name # cfg.sensors[2].name
    /\ DOMAIN outcome.value = {cfg.sensors[1].name}

\* the tokens of the input of from_str
InputTokens == split_ascii_whitespace(parse.input)

\* a token converts to a scalar kind
Converts(kind, token) ==
    IF kind \in IntegerKinds THEN ParseInteger(kind, token).ok
    ELSE IF kind \in FloatKinds THEN ParseF64(token).ok
    ELSE IF kind = "char" THEN Len(token) = 1
    ELSE kind \in StringKinds

\* the value a converting token has as a scalar of the kind
Converted(kind, token) ==
    IF kind \in IntegerKinds THEN Scalar(kind, ParseInteger(kind, token).value)
    ELSE IF kind \in FloatKinds THEN Scalar(kind, ParseF64(token).value)
    ELSE IF kind = "char" THEN Scalar(kind, token[1])
    ELSE Scalar(kind, token)

\* a finished from_str into a struct of scalar fields
StructParsed ==
    /\ parse.at = "done"
    /\ parse.target.shape = "struct"
    /\ \A k \in 1..Len(parse.target.fields) : parse.target.fields[k].kind \in ScalarKinds

\* the first n tokens convert to the kinds of the first n fields
FieldsConvert(n) ==
    \A k \in 1..n : Converts(parse.target.fields[k].kind, InputTokens[k])

\* C13: from_str into a struct with n scalar fields over at least n tokens that
\* all convert succeeds with the k-th token in the k-th declared field; the
\* tokens after the n-th are left alone; "233.6 49.9 01001 000" into
\* Data gives voltage 233.6, frequency 49.9, status "01001".
C13_StructParse ==
    /\ (StructParsed /\ Len(InputTokens) >= Len(parse.target.fields)
            /\ FieldsConvert(Len(parse.target.fields))) =>
        LET n == Len(parse.target.fields) IN
        /\ parse.result.tag = "Ok"
        /\ DOMAIN parse.result.value = {parse.target.fields[k].name : k \in 1..n}
        /\ \A k \in 1..n :
                parse.result.value[parse.target.fields[k].name]
                    = Converted(parse.target.fields[k].kind, InputTokens[k])
        /\ parse.de.values = SubSeq(InputTokens, n + 1, Len(InputTokens))
    /\ (parse.at = "done" /\ parse.target = Data
            /\ InputTokens = <<<<50, 51, 51, 46, 54>>, <<52, 57, 46, 57>>,
                               <<48, 49, 48, 48, 49>>, <<48, 48, 48>>>>) =>
        parse.result = Ok([voltage |-> Scalar("f32", [m |-> 2336, e |-> -1]),
                           frequency |-> Scalar("f32", [m |-> 499, e |-> -1]),
                           status |-> Scalar("string", <<48, 49, 48, 48, 49>>)])

\* "7 a 233.6" into a struct of an u8 and a char
C13_Witness ==
    /\ StructParsed
    /\ parse.result.tag = "Ok"
    /\ Len(parse.target.fields) = 2
    /\ parse.target.fields[1].kind = "u8"
    /\ parse.target.fields[2].kind = "char"
    /\ InputTokens = <<<<55>>, <<97>>, <<50, 51, 51, 46, 54>>>>
    /\ parse.de.values = <<<<50, 51, 51, 46, 54>>>>

\* C14: from_str into a struct with n fields over m < n tokens, the first m
\* converting, fails with ExpectedValue whose field is the name of the
\* (m+1)-th declared field; "233.6 49.9" into Data fails with
\* ExpectedValue{field: "status"}.
C14_StructExhaustion ==
    /\ (StructParsed /\ Len(InputTokens) < Len(parse.target.fields)
            /\ FieldsConvert(Len(InputTokens))) =>
        parse.result = Err(ExpectedValue(parse.target.fields[Len(InputTokens) + 1].name))
    /\ (parse.at = "done" /\ parse.target = Data
            /\ InputTokens = <<<<50, 51, 51, 46, 54>>, <<52, 57, 46, 57>>>>) =>
        parse.result = Err([kind |-> "ExpectedValue", field |-> "status"])

C14_Witness ==
    /\ StructParsed
    /\ parse.target = Data
    /\ Len(InputTokens) = 2
    /\ parse.result = Err([kind |-> "ExpectedValue", field |-> "status"])
    /\ DOMAIN parse.out = {"voltage", "frequency"}

\* a finished from_str into a tuple of scalars
TupleParsed ==
    /\ parse.at = "done"
    /\ parse.target.shape = "tuple"
    /\ \A k \in 1..Len(parse.target.kinds) : parse.target.kinds[k] \in ScalarKinds

ElementsConvert(n) == \A k \in 1..n : Converts(parse.target.kinds[k], InputTokens[k])

Requested ==
    IF parse.at = "start" /\ parse.target.shape = "scalar" THEN parse.target.kind
    ELSE IF parse.at = "value" THEN FieldOf(parse.target, parse.key).kind
    ELSE IF parse.at = "element" THEN Head(parse.asked)
    ELSE "none"

\* C16: a request for any of the unsupported kinds fails with UnsupportedType
\* naming the kind, yields no value, and leaves the tokens and the active
\* field of the deserializer as they were.
C16_UnsupportedRejected ==
    [][(parse.at # "off" /\ Requested \in UnsupportedKinds) =>
          /\ parse'.at = "done"
          /\ parse'.result = [tag |-> "Err",
                              error |-> [kind |-> "UnsupportedType", typ |-> Requested]]
          /\ parse'.out = parse.out
          /\ parse'.de.values = parse.de.values
          /\ parse'.de.field = parse.de.field]_vars

\* a bool as the second field of a struct, with a token left for it
C16_Witness ==
    /\ parse.at = "done"
    /\ parse.target.shape = "struct"
    /\ Len(parse.target.fields) = 2
    /\ parse.result = Err([kind |-> "UnsupportedType", typ |-> "bool"])
    /\ parse.de.field = SomeField(parse.target.fields[2].name)
    /\ Len(InputTokens) = 2
    /\ Len(parse.de.values) = 1

\* C17: encode_command returns a frame of exactly 8 bytes for every command
\* of 0 to 5 bytes, so every buffer handed to send_request has 8 bytes.
C17_EncodeLength ==
    /\ (cfg # None /\ Len(cfg.command) \in 0..MAX_COMMAND_LENGTH) =>
            LET e == encode_command(cfg.command) IN
            e.tag = "Ok" /\ Len(e.value) = 8
    /\ sends > 0 => Len(request) = 8

\* the empty command is sent as 00 00 0d and five zero bytes
C17_Witness ==
    /\ sends = 1
    /\ cfg.command = << >>
    /\ request = <<0, 0, 13, 0, 0, 0, 0, 0>>

\* the position of the last non-zero byte of a chunk, 0 in a chunk of zeros
LastNonZero(c) ==
    IF \A i \in 1..Len(c) : c[i] = 0 THEN 0
    ELSE CHOOSE i \in 1..Len(c) : c[i] # 0 /\ \A j \in (i + 1)..Len(c) : c[j] = 0

\* the last non-zero byte of the chunk is 0x0D
Terminates(c) == LastNonZero(c) > 0 /\ c[LastNonZero(c)] = 13

\* a step of the read loop in which the device delivers a chunk
ChunkRead == pc = "reading" /\ wire # << >> /\ wire' = Tail(wire)

\* C19: the read loop stops after a chunk exactly when the last non-zero byte
\* of the chunk is 0x0D; that byte is not part of the frame, and the call
\* reads no further. Any other chunk is appended up to its last non-zero
\* byte, a 0x0D in it included, and reading goes on; a chunk of zeros
\* appends nothing.
C19_TerminatorDetection ==
    /\ [][ChunkRead =>
            LET c == Head(wire) IN
            /\ Len(c) <= CHUNK_SIZE
            /\ reads' = reads + 1
            /\ IF Terminates(c)
               THEN /\ pc' # "reading"
                    /\ frame' # None
                    /\ frame'.bytes = resp \o SubSeq(c, 1, LastNonZero(c) - 1)
               ELSE /\ pc' = "reading"
                    /\ resp' = resp \o SubSeq(c, 1, LastNonZero(c))
                    /\ frame' = None]_vars
    /\ [](\A i \in 1..Len(delivered) :
            Terminates(delivered[i]) <=> (i = Len(delivered) /\ Checked))
    /\ []((pc # "reading" /\ Checked) => reads = Len(delivered))

\* a 0x0D in the middle of the first chunk, then a chunk that is only a 0x0D
C19_Witness ==
    /\ Checked
    /\ delivered = <<<<40, 13, 48, 0, 0, 0, 0, 0>>, <<13, 0, 0, 0, 0, 0, 0, 0>>>>
    /\ frame.bytes = <<40, 13, 48>>
    /\ reads = 2

\* an answer as the device frames it: 8-byte chunks of which the last one, and
\* no other, has 0x0D as its last non-zero byte
WellFormed(a) ==
    /\ a # << >>
    /\ \A i \in 1..Len(a) : Len(a[i]) = 8 /\ (Terminates(a[i]) <=> i = Len(a))

IsPrefix(a, b) == Len(a) <= Len(b) /\ a = SubSeq(b, 1, Len(a))

\* C18: when the device answers every request with one well-formed answer and
\* no read fails, the k-th call that sent a request reads the chunks of the
\* k-th answer and no others, whatever the earlier calls returned; the checks
\* of a call run only after its terminating chunk, and a call that returned
\* leaves no chunk of its answer with the device.
C18_Alignment ==
    /\ \A k \in 1..Len(device.calls) :
        (/\ k <= Len(device.answers)
         /\ \A j \in 1..k : WellFormed(device.answers[j])
         /\ \A j \in 1..(k - 1) : device.calls[j].ended # "Device")
        =>  /\ IsPrefix(device.calls[k].read, device.answers[k])
            /\ device.calls[k].ended \notin {"running", "Device"} =>
                /\ device.calls[k].read = device.answers[k]
                /\ k = Len(device.calls) =>
                        wire = Flatten(SubSeq(device.answers, k + 1, Len(device.answers)))
    /\ Checked => (delivered # << >> /\ Terminates(Last(delivered)))

\* a first call that ends with MissingResponseMarker after two chunks, and a
\* second one that ends with a result after its own two chunks
C18_Witness ==
    /\ Len(device.calls) = 2
    /\ device.calls[1].ended = "MissingResponseMarker"
    /\ Len(device.calls[1].read) = 2
    /\ device.calls[2].ended = "Ok"
    /\ device.calls[2].read = device.answers[2]
    /\ wire = << >>

\* C20: read_response returns exactly by a read that fails or a chunk whose
\* last non-zero byte is 0x0D: no other step ends the loop, each of the two
\* ends it at once, and against a device whose answers run out into failing
\* reads every call returns. Against a device that goes on serving reads
\* with no bytes the loop has no bound of its own: as long as no read fails,
\* the call stays in the loop and the next read is always issued.
C20_DecodeTermination ==
    /\ [][(pc = "reading" /\ pc' # "reading") =>
            \/ decoded' = DeviceError /\ wire' = wire
            \/ ChunkRead /\ Terminates(Head(wire))]_vars
    /\ [][(pc = "reading" /\ (decoded' = DeviceError \/ (ChunkRead /\ Terminates(Head(wire)))))
            => pc' # "reading"]_vars
    /\ [](Finished => (decoded = DeviceError \/ Checked \/ sends = 0 \/ reads = 0))
    /\ ((device.idle = "fails" /\ pc = "reading") ~> (pc # "reading"))
    /\ \A t \in {0, 1} :
            (pc = "reading" /\ device.tick = t) ~> (pc # "reading" \/ device.tick # t)
    /\ []((pc = "reading" /\ device.idle = "zeros" /\ wire = << >>) => ENABLED ReadIdle)

\* a call still in the loop after more reads than are counted
C20_Witness ==
    /\ pc = "reading"
    /\ device.idle = "zeros"
    /\ wire = << >>
    /\ resp # << >>
    /\ reads = MaxReads
    /\ device.tick = 1

\* a step in which a read of the device fails: a read is counted and the
\* device has delivered nothing
FailedRead == pc = "reading" /\ reads' = reads + 1 /\ wire' = wire

\* C21: a failed send_request makes execute_command return Device without any
\* read_response; a failed read_response makes it return Device at once,
\* without another transport operation, and what the call had accumulated is
\* dropped: the accumulator of a call holds the chunks of that call only, and
\* so does every frame that is checked.
C21_TransportFailure ==
    /\ [][FailedRead =>
            /\ outcome' = DeviceError
            /\ decoded' = DeviceError
            /\ pc' = "idle"
            /\ idx' = idx + 1
            /\ sends' = sends
            /\ delivered' = delivered
            /\ resp' = << >>]_vars
    /\ []((outcome = DeviceError /\ decoded # DeviceError) =>
            (sends = 1 /\ reads = 0 /\ delivered = << >> /\ frame = None))
    /\ [](outcome = DeviceError => (DOMAIN outcome = {"tag"} /\ frame = None))
    /\ [](pc = "reading" => resp = Trimmed(delivered))
    /\ [](pc # "reading" => resp = << >>)
    /\ [](Checked => frame.bytes \o <<END_RESPONSE_MARKER>> = Trimmed(delivered))

\* a first call whose second read failed, and a second call that got a frame
C21_Witness ==
    /\ Len(device.calls) = 2
    /\ device.calls[1].ended = "Device"
    /\ Len(device.calls[1].read) = 1
    /\ device.calls[1].read[1] \notin {Zeros(8)}
    /\ Checked
    /\ delivered = device.calls[2].read

\* the number of tokens the deserializer has handed out
Position(p) == Len(split_ascii_whitespace(p.input)) - Len(p.de.values)

\* C22: within one from_str call the token position never decreases; a
\* request for an integer, a float, a char or a string that finds a token
\* advances it by exactly one, whether the token converts or not; a request
\* for a struct key, for an unsupported kind, and every other step leave it
\* where it was.
C22_CursorMonotonic ==
    [][parse.at # "off" =>
          /\ Position(parse') >= Position(parse)
          /\ parse'.input = parse.input
          /\ IF Requested \in ScalarKinds /\ parse.de.values # << >>
             THEN /\ parse'.de.values = Tail(parse.de.values)
                  /\ Position(parse') = Position(parse) + 1
             ELSE /\ parse'.de.values = parse.de.values
                  /\ Position(parse') = Position(parse)]_vars

\* the second field is a char and its token has five bytes: the token is
\* taken although from_str fails, and the third token is left
C22_Witness ==
    /\ parse.at = "done"
    /\ parse.target.shape = "struct"
    /\ parse.result = Err(ExpectedChar(parse.key))
    /\ Len(InputTokens) = 3
    /\ Position(parse) = 2
    /\ Len(parse.de.values) = 1
\* the fields of the struct that have a token which does not convert to
\* the kind of the field
NotConverting ==
    {k \in 1..Min(Len(parse.target.fields), Len(InputTokens)) :
        ~Converts(parse.target.fields[k].kind, InputTokens[k])}

\* the error kind of a failed conversion to a scalar kind
ConversionError(kind) ==
    IF kind \in IntegerKinds THEN "ExpectedInteger"
    ELSE IF kind \in FloatKinds THEN "ExpectedFloat"
    ELSE "ExpectedChar"

\* C23: from_str into a struct of scalar fields in which the token paired
\* with a field does not convert to the kind of the field fails with
\* ExpectedInteger, ExpectedFloat or ExpectedChar, according to the kind of
\* the first such field f in declared order, and with the name of f as its
\* field; no struct is returned, the fields before f have their values, and
\* the tokens after the one of f are left alone.
C23_ConversionErrorContext ==
    (StructParsed /\ NotConverting # {}) =>
        LET i == CHOOSE k \in NotConverting : \A j \in NotConverting : k <= j
            f == parse.target.fields[i]
        IN  /\ parse.result.tag = "Err"
            /\ parse.result.error.kind = ConversionError(f.kind)
            /\ parse.result.error.field = f.name
            /\ parse.de.field = SomeField(f.name)
            /\ DOMAIN parse.out = {parse.target.fields[k].name : k \in 1..(i - 1)}
            /\ parse.de.values = SubSeq(InputTokens, i + 1, Len(InputTokens))
            /\ parse.fields = [k \in 1..(Len(parse.target.fields) - i) |->
                                    parse.target.fields[i + k].name]

\* "7 233.6 a" into a struct of an u8 and a second u8: the error names the
\* second field, and "a" is left
C23_Witness ==
    /\ StructParsed
    /\ Len(parse.target.fields) = 2
    /\ parse.target.fields[1].kind = "u8"
    /\ parse.target.fields[2].kind = "u8"
    /\ NotConverting = {2}
    /\ parse.result.tag = "Err"
    /\ parse.result.error.kind = "ExpectedInteger"
    /\ parse.result.error.field = parse.target.fields[2].name
    /\ Len(parse.de.values) = 1
\* a step of the read loop that reads a chunk and goes on
Appends == ChunkRead /\ pc' = "reading"

\* the bytes up to the last one that is not zero
UpToLastNonZero(c) == SubSeq(c, 1, LastNonZero(c))

\* C24: every read is into a fresh buffer of 8 zero bytes and the count it
\* returns is not used: a read appends to the accumulator exactly the bytes
\* the transport wrote in that read up to the last one that is not zero,
\* whatever the reads before it delivered; a read that wrote k < 8 bytes
\* does what a read of these k bytes followed by 8 - k zero bytes does.
C24_ChunkIsolation ==
    /\ [][ChunkRead =>
            LET w == Head(wire) IN
            /\ delivered' = Append(delivered, w)
            /\ ReadInto(w) = w \o Zeros(CHUNK_SIZE - Len(w))
            /\ Len(ReadInto(w)) = CHUNK_SIZE
            /\ slice_trim_end_matches(ReadInto(w)) = UpToLastNonZero(w)
            /\ Appends => resp' = resp \o UpToLastNonZero(w)
            /\ frame' # None =>
                    frame'.bytes \o <<END_RESPONSE_MARKER>> = resp \o UpToLastNonZero(w)]_vars
    /\ [](pc = "reading" =>
            /\ resp = Trimmed(delivered)
            /\ resp = Trimmed([i \in 1..Len(delivered) |-> ReadInto(delivered[i])])
            /\ resp = Flatten([i \in 1..Len(delivered) |-> UpToLastNonZero(delivered[i])]))

\* two reads of two bytes each, "(0" and "(" 0x0D: the second one appends
\* its two bytes behind the two of the first one and nothing else
C24_Witness ==
    /\ Checked
    /\ delivered = <<<<40, 48>>, <<40, 13>>>>
    /\ frame.bytes = <<40, 48, 40>>
    /\ reads = 2
\* from_str failed in this step
Fails == parse'.at = "done" /\ parse'.result.tag = "Err"

\* a finished from_str whose last visitor read a sequence of any length
SequenceRead == parse.at = "done" /\ parse.more

\* the number of tokens taken before the first element of the sequence was
\* asked for: one for each field before it, which are scalars
TakenBefore ==
    IF parse.within = "top" THEN 0
    ELSE Cardinality({k \in 1..Len(parse.target.fields) :
            /\ parse.target.fields[k].kind \in ScalarKinds
            /\ \E j \in (k + 1)..Len(parse.target.fields) :
                    parse.target.fields[j].name = parse.key})

\* every remaining token is taken and the error is ExpectedValue
C25_SequenceExhausts ==
    SequenceRead =>
        /\ parse.result.tag = "Err"
        /\ parse.result.error.kind = "ExpectedValue"
        /\ parse.de.values = << >>

\* C25: a request for the next element of a sequence or tuple either fails
\* or takes one token and yields one element, and never reports the end
\* of the sequence: without a token it fails. A tuple ends only when
\* the last element its visitor asks for is there. A sequence of any
\* length never completes: from_str fails. When the element kind is a
\* scalar kind and every remaining token converts to it, every token is
\* taken and the error is ExpectedValue; otherwise the error is the one of
\* the first token that does not convert, with the tokens behind it left, or
\* UnsupportedType with no token taken.
C25_SequenceNeverEnds ==
    /\ [][parse.at = "element" =>
            /\ ~Fails => /\ parse.de.values # << >>
                         /\ parse'.de.values = Tail(parse.de.values)
                         /\ Requested \in ScalarKinds
                         /\ Converts(Requested, Head(parse.de.values))
                         /\ IF parse'.at = "element"
                            THEN parse'.elems = Append(parse.elems,
                                    Converted(Requested, Head(parse.de.values)))
                            ELSE ~parse.more /\ Len(parse.asked) = 1
            /\ parse.de.values = << >> => Fails
            /\ parse.more => parse'.at \in {"element", "done"}]_vars
    /\ [](SequenceRead =>
            LET kind == Head(parse.asked)
                n == Len(parse.elems)
                rest == SubSeq(InputTokens, TakenBefore + 1, Len(InputTokens))
                bad == {k \in 1..Len(rest) : ~Converts(kind, rest[k])}
            IN  /\ parse.result.tag = "Err"
                /\ IF kind \in UnsupportedKinds
                   THEN /\ parse.result.error = unsupported_type(kind)
                        /\ parse.de.values = rest
                   ELSE IF bad = {}
                   THEN /\ parse.result.error = ExpectedValue(field_or_unknown(parse.de))
                        /\ parse.de.values = << >>
                        /\ n = Len(rest)
                   ELSE /\ parse.result.error.kind = ConversionError(kind)
                        /\ n + 1 \in bad /\ \A k \in bad : n + 1 <= k
                        /\ parse.de.values = SubSeq(rest, n + 2, Len(rest)))

\* "7 a 233.6" into a sequence of strings: three elements, then ExpectedValue
C25_Witness ==
    /\ SequenceRead
    /\ parse.target = SeqOf("string")
    /\ Len(InputTokens) = 3
    /\ Len(parse.elems) = 3
    /\ parse.de.values = << >>
    /\ parse.result = Err(ExpectedValue("<unknown>"))
\* from_str returned an error that has a field
FieldError ==
    /\ parse.at = "done"
    /\ parse.result.tag = "Err"
    /\ "field" \in DOMAIN parse.result.error

\* C26: the active field is unset when from_str starts, becomes the name
\* asked for at every request for a struct key, and is changed by no other
\* step, so it is the last key at any time; an error with a field returned
\* after a key was requested has the last key as its field, also when it
\* comes from an element of a tuple or sequence that is the value of that
\* key, and it has "<unknown>" only if no key was requested before.
C26_FieldNeverCleared ==
    /\ [](parse.at = "start" => parse.de.field = NoField)
    /\ [][parse.at # "off" =>
            IF parse.at = "key" /\ parse.fields # << >>
            THEN /\ parse'.de.field = SomeField(Head(parse.fields))
                 /\ parse'.key = Head(parse.fields)
            ELSE /\ parse'.de.field = parse.de.field
                 /\ parse'.key = parse.key]_vars
    /\ [](parse.at # "off" =>
            IF parse.key = "" THEN parse.de.field = NoField
            ELSE parse.de.field = SomeField(parse.key))
    /\ [](FieldError =>
            /\ parse.key # "" => parse.result.error.field = parse.key
            /\ parse.key = "" => parse.result.error.field = "<unknown>"
            /\ parse.result.error.field = "<unknown>" =>
                    parse.target.shape # "struct" /\ parse.de.field = NoField)

\* the second element of the tuple that is the value of "frequency" fails,
\* after the first one was read: the error names "frequency"
C26_Witness ==
    /\ FieldError
    /\ parse.within = "field"
    /\ ~parse.more
    /\ Len(parse.elems) = 1
    /\ parse.key = "frequency"
    /\ parse.result = Err(ExpectedChar("frequency"))
\* a step in which execute_command is called
Called == poll.at = "loop" /\ pc = "idle" /\ (pc' = "reading" \/ idx' = idx + 1)

\* a step in which the loop body is done with what execute_command returned
Handled == poll.at = "loop" /\ poll'.i = poll.i + 1

\* the names of the sensors of a command
SensorNames(c) == {c.sensors[k].name : k \in {j \in 1..Len(c.sensors) : c.sensors[j].some}}

\* the policy of the loop of run for calls that return: the commands are
\* called one at a time in the order of the configuration, pass after pass;
\* after an error nothing is published, the loop goes on with the next
\* command of the pass and stays in run; after Ok only sensors of the
\* command whose name is in the returned map are published, with the value
\* the map has for them
FailurePolicy ==
    /\ [][Called => /\ idx = poll.i
                    /\ poll.i \in 1..Len(commands)
                    /\ cfg' = commands[poll.i]
                    /\ poll' = poll]_vars
    /\ [](poll.at = "loop" =>
            /\ idx \in {poll.i, poll.i + 1}
            /\ pc = "reading" => idx = poll.i /\ cfg = commands[poll.i]
            /\ idx = poll.i + 1 => cfg = commands[poll.i])
    /\ [][(poll.at = "loop" /\ poll' # poll) =>
            \/ Handled /\ poll'.cycle = poll.cycle /\ poll'.at = "loop" /\ idx' = idx
            \/ /\ poll.i = Len(commands) + 1
               /\ poll'.i = 1 /\ idx' = 1
               /\ poll'.cycle = poll.cycle + 1
               /\ poll'.at = "loop"]_vars
    /\ [][(Handled /\ outcome.tag # "Ok") => poll'.sent = << >>]_vars
    /\ [][Handled =>
            \A k \in 1..Len(poll'.sent) :
                /\ outcome.tag = "Ok"
                /\ poll'.sent[k].name \in DOMAIN outcome.value
                /\ poll'.sent[k].name \in SensorNames(commands[poll.i])
                /\ poll'.sent[k].value = outcome.value[poll'.sent[k].name]]_vars

\* C27: in run the commands are executed one after another in the order of
\* the configuration; when execute_command fails for a command nothing is
\* published for it in that pass, the command is tried again only in the
\* next pass, after the remaining commands, and the loop never ends
\* because a command failed; the state of a sensor is published only if
\* its name is in the returned map.
C27_PollLoopPolicy ==
    /\ FailurePolicy
    /\ [](poll.at = "loop" => pc # "aborted")

\* the second pass: the command that failed in the first pass with nothing
\* published has been executed again, and its sensor is published
C27_Witness ==
    /\ poll.at = "loop"
    /\ poll.cycle = 2
    /\ poll.i = 2
    /\ outcome.tag = "Ok"
    /\ Len(poll.sent) = 1
    /\ device.calls[1].ended \in {"Device", "InvalidCrc"}
\* a command of the configuration has more than MAX_COMMAND_LENGTH bytes
SomeTooLong ==
    \E k \in 1..Len(commands) : Len(commands[k].command) > MAX_COMMAND_LENGTH

\* C28: main returns its error for a configuration with a command of more
\* than 5 bytes before anything is done with the USB device or the MQTT
\* client, and goes on for every other configuration; so every command run
\* hands to execute_command has 5 bytes at most, encode_command does not
\* fail for the command a call is made with (the step SendTooLong of
\* execute_command cannot be taken), and no call of the loop returns
\* CommandTooLong.
C28_CommandTooLongUnreachable ==
    /\ poll.at = "rejected" =>
            /\ SomeTooLong
            /\ ~poll.connected
            /\ cfg = None /\ sends = 0 /\ reads = 0 /\ device.calls = << >>
            /\ outcome = None
            /\ poll.sent = << >>
    /\ poll.at \in {"checked", "loop"} => ~SomeTooLong
    /\ poll.at \in {"main", "checked"} => ~poll.connected /\ cfg = None /\ sends = 0
    /\ poll.at = "loop" =>
            /\ poll.connected
            /\ cfg # None => Len(cfg.command) <= MAX_COMMAND_LENGTH
            /\ outcome.tag # "CommandTooLong"
            /\ CanCall => encode_command(commands[idx].command).tag = "Ok"

\* a configuration whose second command has 6 bytes is rejected
C28_Witness ==
    /\ poll.at = "rejected"
    /\ Len(commands) = 2
    /\ Len(commands[1].command) = 5
    /\ Len(commands[2].command) = 6
====
